---- MODULE Spec2Model ----
(***************************************************************************)
(* Model of the PayForeman backend: the invoice/payment ledger             *)
(* (src/src/routes/invoices.ts), the deadline routes                       *)
(* (src/src/routes/deadlines.ts), the project rows they reference          *)
(* (src/src/routes/projects.ts) and the schema and seed data               *)
(* (src/src/jwt-verification.example.ts).                                  *)
(*                                                                         *)
(* Money is counted in whole currency units, calendar dates are day        *)
(* numbers since 1970-01-01 and JavaScript Date values are hours since     *)
(* the epoch.  An optional request field or a nullable column is <<>>      *)
(* when absent/NULL and <<v>> when it holds v.                             *)
(***************************************************************************)
EXTENDS Integers, Sequences, FiniteSets, TLC

VARIABLES
    invoices,     \* invoices table: id -> row, for the ids in use
    payments,     \* payments table: set of rows
    reqs,         \* recordPayment requests: id -> position and inputs
    nInvoices,    \* number of invoice ids handed out so far (uuid freshness)
    projects,     \* projects table: id -> row
    deadlines,    \* deadlines table: id -> row
    nDeadlines,   \* number of deadline ids handed out so far
    nProjects,    \* number of project ids handed out so far
    resp,         \* the answer to the last request of a route other than recordPayment
    tz,           \* the time zone of the server process
    secretKey,    \* the secret API key in the environment of the server process
    dbNow,        \* CURRENT_TIMESTAMP of the database, in ticks
    txs,          \* calls of transaction(callback): id -> position, statements issued, outcome
    poolFree,     \* clients of the connection pool that are not checked out
    call,         \* the proxied request in flight: the promise it awaits, the upstream's progress
    chat          \* chat_history: its rows in order of insertion, and the requests so far

ledgerVars == <<invoices, payments, reqs, nInvoices>>
deadlineVars == <<projects, deadlines, nDeadlines, nProjects, resp, tz, secretKey, dbNow, txs, poolFree, call, chat>>
vars == <<invoices, payments, reqs, nInvoices, projects, deadlines, nDeadlines, nProjects,
          resp, tz, secretKey, dbNow, txs, poolFree, call, chat>>

----------------------------------------------------------------------------
(* Bounds of the model *)

MaxRequests == 2
MaxInvoices == 1
MaxDeadlines == 2
\* rows of a table followed through partial updates and deletes
MaxRows == 1
\* ticks of the database clock
MaxClock == 1
\* calls of transaction(callback) in flight together
MaxTx == 2
\* clients of the connection pool
PoolSize == 1
\* ticks without a byte from the upstream after which the runtime's fetch gives
\* up (its headers timeout and its body timeout)
TimeoutTicks == 2
\* requests to POST /chat/message
MaxChats == 4

----------------------------------------------------------------------------
(* Optional values *)

Absent == <<>>
Some(v) == <<v>>
Opt(S) == {Absent} \cup {Some(x) : x \in S}
Val(o) == o[1]

\* the column kept whatever the parameter is
CoalesceKeepsColumn(param, column) == column

\* COALESCE($n, column): the parameter when it is not NULL, else the column
Coalesce(param, column) == IF param # Absent THEN param ELSE column

\* the request bodies tried when the store answers, and one body when it fails
\* (the failing statement makes the handler ignore the rest of the body)
Bodies(dbOk, S) == IF dbOk THEN S ELSE {CHOOSE x \in S : TRUE}

----------------------------------------------------------------------------
(* The environment of the server process *)

\* values NEXT_PUBLIC_SECRET_API_KEY may hold: the start-up check only requires
\* it to be non-empty.  The last one has a line break inside.
SecretKeys == {"stk_sec_A", "stk_sec_B", "stk_sec\nC"}
DefaultSecret == "stk_sec_A"

\* a proxied request followed through its awaits.  pc names the promise the
\* handler awaits: "fetch" (the response headers), "body" (response.json() or,
\* for an error response, upstreamResponse.text()), or "done" once res.json(...)
\* has answered the frontend; quiet counts the ticks since the upstream's last
\* byte; chunks is the parity of the body chunks received
IdleCall == [pc |-> "idle", endpoint |-> "", ok |-> TRUE, quiet |-> 0, chunks |-> 0,
             status |-> 0]

----------------------------------------------------------------------------
(* transaction(callback) of the database utility *)

TxIds == 1..MaxTx

\* the variables of the routes, which transaction(callback) leaves alone
routeVars == <<projects, deadlines, nDeadlines, nProjects, resp, tz, secretKey, dbNow, call,
               chat>>

\* a call that has not started.  pc names the promise the call awaits; log is
\* the statements issued on its client, in order; released counts
\* client.release(); outcome is what the caller gets: "returned" (the callback's
\* result) or "threw", and then error names the operation whose error it is;
\* caught is the error the catch block holds
IdleTx == [pc |-> "idle", log |-> <<>>, released |-> 0, outcome |-> "none",
           error |-> "none", caught |-> "none"]

\* the throw of the catch block without the finally block's client.release()
ThrowKeepingClient(tx, error, free) ==
    [tx |-> [tx EXCEPT !.pc = "done", !.outcome = "threw", !.error = error],
     free |-> free]

\* catch (error) { await ROLLBACK; throw error } finally { client.release() },
\* after the ROLLBACK: the error of the catch block is thrown on, or the ROLLBACK's
\* own error when it failed, and the client is released
ThrowAndRelease(tx, error, free) ==
    [tx |-> [tx EXCEPT !.pc = "done", !.outcome = "threw", !.error = error,
                       !.released = @ + 1],
     free |-> free + 1]

\* client.query(statement) is issued and awaited
Await(tx, statement) == [tx EXCEPT !.pc = statement, !.log = Append(@, statement)]

\* catch (error) { await client.query('ROLLBACK') ...
Catch(tx, error) == [Await(tx, "ROLLBACK") EXCEPT !.caught = error]

\* transaction(callback) is called: const client = await pool.connect()
TxCall(c) ==
    /\ txs[c].pc = "idle"
    /\ \A q \in TxIds : q < c => txs[q].pc # "idle"
    /\ txs' = [txs EXCEPT ![c].pc = "connect"]
    /\ UNCHANGED <<poolFree, routeVars, ledgerVars>>

\* pool.connect() settles: with a client when one is free, with an error when the
\* connection fails or none came free within connectionTimeoutMillis.  The
\* rejection is outside the try block.  With the client: await client.query('BEGIN')
TxConnected(c, ok) ==
    /\ txs[c].pc = "connect"
    /\ IF ok
       THEN /\ poolFree > 0
            /\ poolFree' = poolFree - 1
            /\ txs' = [txs EXCEPT ![c] = Await(@, "BEGIN")]
       ELSE /\ txs' = [txs EXCEPT ![c] = [@ EXCEPT !.pc = "done", !.outcome = "threw",
                                                      !.error = "connect"]]
            /\ UNCHANGED poolFree
    /\ UNCHANGED <<routeVars, ledgerVars>>

\* BEGIN settles: const result = await callback(client), or the catch block
TxBegun(c, ok) ==
    /\ txs[c].pc = "BEGIN"
    /\ txs' = [txs EXCEPT ![c] = IF ok THEN [@ EXCEPT !.pc = "callback"]
                                  ELSE Catch(@, "BEGIN")]
    /\ UNCHANGED <<poolFree, routeVars, ledgerVars>>

\* the callback settles: await client.query('COMMIT'), or the catch block
TxCalledBack(c, ok) ==
    /\ txs[c].pc = "callback"
    /\ txs' = [txs EXCEPT ![c] = IF ok THEN Await(@, "COMMIT")
                                  ELSE Catch(@, "callback")]
    /\ UNCHANGED <<poolFree, routeVars, ledgerVars>>

\* COMMIT settles: return result and, in the finally block, client.release(); or
\* the catch block
TxCommitted(c, ok) ==
    /\ txs[c].pc = "COMMIT"
    /\ IF ok
       THEN /\ txs' = [txs EXCEPT ![c] = [@ EXCEPT !.pc = "done", !.outcome = "returned",
                                                      !.released = @ + 1]]
            /\ poolFree' = poolFree + 1
       ELSE /\ txs' = [txs EXCEPT ![c] = Catch(@, "COMMIT")]
            /\ UNCHANGED poolFree
    /\ UNCHANGED <<routeVars, ledgerVars>>

\* ROLLBACK settles: throw error, or the ROLLBACK's rejection leaves the catch
\* block in its place; the finally block releases the client either way
TxRolledBack(c, ok) ==
    /\ txs[c].pc = "ROLLBACK"
    /\ LET end == ThrowAndRelease(txs[c], IF ok THEN txs[c].caught ELSE "ROLLBACK",
                                  poolFree)
       IN  /\ txs' = [txs EXCEPT ![c] = end.tx]
           /\ poolFree' = end.free
    /\ UNCHANGED <<routeVars, ledgerVars>>

TxNext ==
    \/ \E c \in TxIds : TxCall(c)
    \/ \E c \in TxIds, ok \in BOOLEAN : TxConnected(c, ok)
    \/ \E c \in TxIds, ok \in BOOLEAN : TxBegun(c, ok)
    \/ \E c \in TxIds, ok \in BOOLEAN : TxCalledBack(c, ok)
    \/ \E c \in TxIds, ok \in BOOLEAN : TxCommitted(c, ok)
    \/ \E c \in TxIds, ok \in BOOLEAN : TxRolledBack(c, ok)

----------------------------------------------------------------------------
(* The ledger: invoices and payments *)

RequestIds == 1..MaxRequests
InvoiceIds == 1..MaxInvoices
\* the r-th request carries the r-th day as its paymentDate, or none
PaymentDateOf(r) == r
PaymentAmounts == {-2, 0, 5, 12}
InvoiceAmounts == {10}
Statuses == {"pending", "partial", "paid", "overdue"}

\* concurrent records that the request's INSERT ran while another request was
\* between its INSERT and its UPDATE
IdleReq == [pc |-> "idle", invoiceId |-> 0, paymentDate |-> Absent,
            amount |-> Absent, status |-> 0, concurrent |-> FALSE]

ExistingInvoices == DOMAIN invoices

\* !paymentDate || !amount
PaymentInvalid(paymentDate, amount) ==
    paymentDate = Absent \/ amount = Absent \/ Val(amount) = 0

\* INSERT INTO payments ... : one row, keyed by the request's uuid
PaymentRow(r, invoiceId, paymentDate, amount) ==
    [id |-> r, invoice_id |-> invoiceId, payment_date |-> Val(paymentDate),
     amount |-> Val(amount)]

\* the CASE reading the balance before the payment instead of amount_paid + $1
PaymentStatusStale(inv, amt) ==
    IF inv.amount_paid >= inv.amount THEN "paid"
    ELSE IF inv.amount_paid > 0 THEN "partial"
    ELSE "pending"

\* the status CASE with a branch that keeps 'overdue' on an unpaid balance
PaymentStatusKeepingOverdue(inv, amt) ==
    IF inv.amount_paid + amt >= inv.amount THEN "paid"
    ELSE IF inv.payment_status = "overdue" THEN "overdue"
    ELSE IF inv.amount_paid + amt > 0 THEN "partial"
    ELSE "pending"

\* CASE WHEN amount_paid + $1 >= amount THEN 'paid'
\*      WHEN amount_paid + $1 > 0 THEN 'partial' ELSE 'pending' END
PaymentStatusCase(inv, amt) ==
    IF inv.amount_paid + amt >= inv.amount THEN "paid"
    ELSE IF inv.amount_paid + amt > 0 THEN "partial"
    ELSE "pending"

\* CASE WHEN amount_paid + $1 >= amount THEN $2 ELSE paid_date END
PaidDateCase(inv, amt, date) ==
    IF inv.amount_paid + amt >= inv.amount THEN Some(date) ELSE inv.paid_date

\* amount_paid = $1 : the payment overwrites the balance
AmountPaidOverwrite(inv, amt) == amt

\* amount_paid = LEAST(amount, amount_paid + $1) : the balance clamped at the amount
AmountPaidClamped(inv, amt) ==
    IF inv.amount_paid + amt <= inv.amount THEN inv.amount_paid + amt ELSE inv.amount

\* amount_paid = amount_paid + $1
AmountPaidSet(inv, amt) == inv.amount_paid + amt

\* UPDATE invoices SET ... WHERE id = $3 : every right-hand side reads the old row
UpdateInvoiceForPayment(inv, amt, date) ==
    [inv EXCEPT !.amount_paid = AmountPaidSet(inv, amt),
                !.payment_status = PaymentStatusCase(inv, amt),
                !.paid_date = PaidDateCase(inv, amt, date),
                !.updated_at = dbNow]

\* res.status(code): the handler has answered and its locals are gone
Answer(r, code) ==
    [reqs EXCEPT ![r] = [IdleReq EXCEPT !.pc = "done", !.status = code,
                                        !.concurrent = reqs[r].concurrent]]

\* POST /invoices/:id/payments, up to the first await: the validation and the
\* INSERT INTO payments.  The insert fails (and the catch answers 500) when the
\* store fails or when invoice_id references no invoice (FOREIGN KEY).
RecordPaymentInsert(r, invoiceId, paymentDate, amount, dbOk) ==
    /\ reqs[r].pc = "idle"
    /\ \A q \in RequestIds : q < r => reqs[q].pc # "idle"
    /\ LET req == [reqs[r] EXCEPT !.invoiceId = invoiceId,
                                  !.paymentDate = paymentDate,
                                  !.amount = amount]
       IN  IF PaymentInvalid(paymentDate, amount)
           THEN /\ reqs' = Answer(r, 400)
                /\ UNCHANGED payments
           ELSE IF dbOk /\ invoiceId \in ExistingInvoices
           THEN /\ payments' = payments \cup {PaymentRow(r, invoiceId, paymentDate, amount)}
                /\ reqs' = [reqs EXCEPT ![r] =
                              [req EXCEPT !.pc = "inserted",
                                          !.concurrent = \E q \in RequestIds : reqs[q].pc = "inserted"]]
           ELSE /\ reqs' = Answer(r, 500)
                /\ UNCHANGED payments
    /\ UNCHANGED <<invoices, nInvoices>>
    /\ UNCHANGED deadlineVars

\* POST /invoices/:id/payments, after the first await: the UPDATE invoices and
\* the 201 answer; a failing UPDATE is caught and answered 500.
RecordPaymentUpdate(r, dbOk) ==
    /\ reqs[r].pc = "inserted"
    /\ LET id == reqs[r].invoiceId
           amt == Val(reqs[r].amount)
           date == Val(reqs[r].paymentDate)
       IN  IF ~dbOk
           THEN /\ reqs' = Answer(r, 500)
                /\ UNCHANGED invoices
           ELSE IF id \in ExistingInvoices
           THEN /\ invoices' = [invoices EXCEPT ![id] = UpdateInvoiceForPayment(invoices[id], amt, date)]
                /\ reqs' = Answer(r, 201)
           ELSE /\ reqs' = Answer(r, 201)
                /\ UNCHANGED invoices
    /\ UNCHANGED <<payments, nInvoices>>
    /\ UNCHANGED deadlineVars

\* retainageAmount = (amount * retainagePercent) / 100 ; the amounts and
\* percentages of the model make the quotient a whole number
RetainageAmount(amount, retainagePercent) == (amount * retainagePercent) \div 100

\* const { retainagePercent = 0 } = req.body
RetainagePercentOr(retainagePercent) ==
    IF retainagePercent = Absent THEN 0 ELSE Val(retainagePercent)

\* the row POST /invoices inserts; amount_paid, payment_status and paid_date take
\* the column defaults
NewInvoiceRow(projectId, amount, retainagePercent) ==
    [project_id |-> projectId, amount |-> amount,
     retainage_percent |-> retainagePercent,
     retainage_amount |-> RetainageAmount(amount, retainagePercent),
     amount_paid |-> 0, payment_status |-> "pending",
     paid_date |-> Absent, initial_paid |-> 0, updated_at |-> dbNow]

\* POST /invoices ; the INSERT fails when project_id references no project
CreateInvoice(projectId, amount, retainagePercent, dbOk) ==
    /\ nInvoices < MaxInvoices
    /\ IF \/ amount = Absent \/ Val(amount) = 0 \/ ~dbOk
          \/ (projectId # Absent /\ Val(projectId) \notin DOMAIN projects)
       THEN UNCHANGED <<invoices, nInvoices>>
       ELSE /\ nInvoices' = nInvoices + 1
            /\ invoices' = [i \in ExistingInvoices \cup {nInvoices + 1} |->
                              IF i = nInvoices + 1
                              THEN NewInvoiceRow(projectId, Val(amount),
                                                 RetainagePercentOr(retainagePercent))
                              ELSE invoices[i]]
    /\ UNCHANGED <<payments, reqs>>
    /\ UNCHANGED deadlineVars

\* let retainageAmount; if (amount !== undefined && retainagePercent !==
\* undefined) retainageAmount = (amount * retainagePercent) / 100
UpdateRetainageAmount(amount, retainagePercent) ==
    IF amount # Absent /\ retainagePercent # Absent
    THEN Some(RetainageAmount(Val(amount), Val(retainagePercent)))
    ELSE Absent

\* UPDATE invoices SET amount = COALESCE($4, amount), retainage_percent =
\* COALESCE($5, retainage_percent), retainage_amount = COALESCE($6,
\* retainage_amount), payment_status = COALESCE($7, payment_status), paid_date =
\* COALESCE($8, paid_date), updated_at = CURRENT_TIMESTAMP ...
UpdateInvoiceRow(inv, amount, retainagePercent, paymentStatus, paidDate) ==
    [inv EXCEPT !.amount = Val(Coalesce(amount, Some(inv.amount))),
                !.retainage_percent =
                    Val(Coalesce(retainagePercent, Some(inv.retainage_percent))),
                !.retainage_amount =
                    Val(Coalesce(UpdateRetainageAmount(amount, retainagePercent),
                                 Some(inv.retainage_amount))),
                !.payment_status = Val(Coalesce(paymentStatus, Some(inv.payment_status))),
                !.paid_date = Coalesce(paidDate, inv.paid_date),
                !.updated_at = dbNow]

\* the status of the answer to an UPDATE or DELETE ... WHERE id = $n RETURNING *:
\* 500 from the catch block, 404 when result.rows.length === 0, else 200
RowAnswer(op, found, dbOk) ==
    [op |-> op, res |-> [status |-> IF ~dbOk THEN 500 ELSE IF ~found THEN 404 ELSE 200]]

\* PUT /invoices/:id
UpdateInvoice(id, amount, retainagePercent, paymentStatus, paidDate, dbOk) ==
    /\ IF dbOk /\ id \in ExistingInvoices
       THEN invoices' = [invoices EXCEPT ![id] =
                            UpdateInvoiceRow(invoices[id], amount, retainagePercent,
                                             paymentStatus, paidDate)]
       ELSE UNCHANGED invoices
    /\ resp' = RowAnswer("updateInvoice", id \in ExistingInvoices, dbOk)
    /\ UNCHANGED <<payments, reqs, nInvoices>>
    /\ UNCHANGED <<projects, deadlines, nDeadlines, nProjects, tz, secretKey, dbNow, txs, poolFree, call, chat>>

\* DELETE /invoices/:id ; payments.invoice_id is ON DELETE CASCADE
DeleteInvoice(id, dbOk) ==
    /\ IF dbOk /\ id \in ExistingInvoices
       THEN /\ invoices' = [i \in ExistingInvoices \ {id} |-> invoices[i]]
            /\ payments' = {p \in payments : p.invoice_id # id}
       ELSE UNCHANGED <<invoices, payments>>
    /\ UNCHANGED <<reqs, nInvoices>>
    /\ UNCHANGED deadlineVars

\* POST /invoices/import: the status computed for one CSV row
ImportStatus(paid, billed, pastDue) ==
    IF paid >= billed THEN "paid"
    ELSE IF paid > 0 /\ paid < billed THEN "partial"
    ELSE IF pastDue /\ paid < billed THEN "overdue"
    ELSE "pending"

ImportRows == {[Billed |-> 10, Paid |-> 0, pastDue |-> TRUE],
               [Billed |-> 10, Paid |-> 4, pastDue |-> FALSE],
               [Billed |-> 10, Paid |-> 10, pastDue |-> FALSE]}

ImportedInvoiceRow(row) ==
    [project_id |-> Absent, amount |-> row.Billed,
     retainage_percent |-> 0, retainage_amount |-> 0, amount_paid |-> row.Paid,
     payment_status |-> ImportStatus(row.Paid, row.Billed, row.pastDue),
     paid_date |-> Absent, initial_paid |-> row.Paid, updated_at |-> dbNow]

\* POST /invoices/import with a list of CSV rows: one INSERT per row, in order;
\* the first failing INSERT ends the loop (500) and keeps the rows before it.
\* okCount is the number of INSERTs that succeed.
ImportRowsStored(rows, okCount) ==
    /\ Len(rows) >= 1
    /\ okCount \in 0..Len(rows)
    /\ nInvoices + Len(rows) <= MaxInvoices
    /\ nInvoices' = nInvoices + okCount
    /\ invoices' = [i \in ExistingInvoices \cup (nInvoices + 1 .. nInvoices + okCount) |->
                      IF i > nInvoices THEN ImportedInvoiceRow(rows[i - nInvoices])
                      ELSE invoices[i]]
    /\ UNCHANGED <<payments, reqs>>

\* the import where its rows are what matters: the answer is not looked at
ImportInvoices(rows, okCount) ==
    /\ ImportRowsStored(rows, okCount)
    /\ UNCHANGED deadlineVars

\* what error.message of a failed INSERT can read
StoreErrors == {"invalid input syntax for type date", "Connection terminated unexpectedly"}

\* the import's answer: the count of a completed loop, or the catch block's
\* body with error.message of the INSERT that threw
ImportAnswer(rows, okCount, error) ==
    IF okCount = Len(rows)
    THEN [status |-> 200, body |-> [success |-> TRUE, imported |-> okCount]]
    ELSE [status |-> 500, body |-> [error |-> "Failed to import invoices", details |-> error]]

\* POST /invoices/import with its answer
ImportInvoicesAnswered(rows, okCount, error) ==
    /\ ImportRowsStored(rows, okCount)
    /\ resp' = [op |-> "import", res |-> ImportAnswer(rows, okCount, error)]
    /\ UNCHANGED <<projects, deadlines, nDeadlines, nProjects, tz, secretKey, dbNow, txs,
                   poolFree, call, chat>>

RowSeqs == UNION {[1..n -> ImportRows] : n \in 1..MaxInvoices}

LedgerInit ==
    /\ invoices = <<>>
    /\ payments = {}
    /\ reqs = [r \in RequestIds |-> IdleReq]
    /\ nInvoices = 0

RecordPaymentStep ==
    \/ \E r \in RequestIds, id \in InvoiceIds, a \in Opt(PaymentAmounts), dbOk \in BOOLEAN :
          \E d \in {Absent, Some(PaymentDateOf(r))} :
              RecordPaymentInsert(r, id, d, a, dbOk)
    \/ \E r \in RequestIds, dbOk \in BOOLEAN : RecordPaymentUpdate(r, dbOk)

\* PUT /invoices/:id with some of its fields
UpdateInvoiceStep ==
    \E id \in InvoiceIds, dbOk \in BOOLEAN :
        \E a \in Bodies(dbOk, Opt({20, 30})), p \in Bodies(dbOk, Opt({10, 20})),
           s \in Bodies(dbOk, Opt({"paid"})), d \in Bodies(dbOk, Opt({9})) :
            UpdateInvoice(id, a, p, s, d, dbOk)

\* recordPayment with the operations that create and remove invoices
LedgerNext ==
    \/ RecordPaymentStep
    \/ \E a \in Opt(InvoiceAmounts \cup {0}), dbOk \in BOOLEAN :
          CreateInvoice(Absent, a, Absent, dbOk)
    \/ \E id \in InvoiceIds, dbOk \in BOOLEAN : DeleteInvoice(id, dbOk)
    \/ \E rows \in RowSeqs, k \in 0..MaxInvoices : ImportInvoices(rows, k)

----------------------------------------------------------------------------
(* JavaScript Date arithmetic as the deadline routes use it *)

\* calendar days used as inputs, as day numbers since 1970-01-01
IsoDays == [d2024_03_05 |-> 19787, d2024_06_01 |-> 19875, d2024_07_15 |-> 19919]

\* time zones a server process may run in: the standard UTC offset in hours and,
\* where daylight saving applies, the instants (hours since the epoch, UTC) at
\* which the 2024 daylight-saving period starts and ends
Zones ==
    [UTC |-> [std |-> 0, dst |-> FALSE, dstStart |-> 0, dstEnd |-> 0],
     Denver |-> [std |-> -7, dst |-> TRUE,
                 dstStart |-> 19792 * 24 + 9, dstEnd |-> 20030 * 24 + 8],
     Berlin |-> [std |-> 1, dst |-> TRUE,
                 dstStart |-> 19813 * 24 + 1, dstEnd |-> 20023 * 24 + 1]]
ZoneNames == DOMAIN Zones

\* the local offset from UTC, in hours, at instant t
Offset(zone, t) ==
    Zones[zone].std +
        (IF Zones[zone].dst /\ Zones[zone].dstStart <= t /\ t < Zones[zone].dstEnd
         THEN 1 ELSE 0)

\* the instant of a local wall-clock time; a time the clock skips or repeats is
\* read with the offset in force before the transition
LocalToUtc(zone, local) ==
    IF Offset(zone, local - (Zones[zone].std + 1)) = Zones[zone].std + 1
    THEN local - (Zones[zone].std + 1)
    ELSE local - Zones[zone].std

\* a date string that is not a date: new Date of it is an Invalid Date, whose
\* toISOString() throws a RangeError
NotADate == -1

\* new Date('YYYY-MM-DD'): a date-only string is midnight UTC
ParseIsoDate(day) == day * 24

\* date.setDate(date.getDate() + n): n days later on the local calendar, at the
\* same local time of day
SetDatePlus(zone, t, n) ==
    LET local == t + Offset(zone, t)
    IN  LocalToUtc(zone, ((local \div 24) + n) * 24 + (local % 24))

\* date.toISOString().split('T')[0]: the UTC calendar day
IsoDateOf(t) == t \div 24

----------------------------------------------------------------------------
(* POST /deadlines/calculate *)

DeadlineTypes == {"preliminary_notice", "mechanics_lien", "retainage_release",
                  "payment_bond_claim", "custom"}
ProjectTypes == {"private", "public"}

\* the rows seeded into colorado_lien_rules
LienRules ==
    {[rule_type |-> "preliminary_notice", project_type |-> "private", deadline_days |-> 10,
      description |-> "Preliminary notice must be sent within 10 days",
      trigger_event |-> "first_work_date", statutory_reference |-> "C.R.S. 38-22-109"],
     [rule_type |-> "mechanics_lien", project_type |-> "private", deadline_days |-> 120,
      description |-> "Mechanics lien must be filed within 4 months",
      trigger_event |-> "last_work_date", statutory_reference |-> "C.R.S. 38-22-109"],
     [rule_type |-> "mechanics_lien", project_type |-> "public", deadline_days |-> 120,
      description |-> "Payment bond claim must be made within 4 months",
      trigger_event |-> "last_work_date", statutory_reference |-> "C.R.S. 38-26-107"],
     [rule_type |-> "retainage_release", project_type |-> "private", deadline_days |-> 60,
      description |-> "Retainage typically released 30-60 days after completion",
      trigger_event |-> "project_completion", statutory_reference |-> "Contract Terms"]}

\* the lookup without its project_type condition
SelectRulesAnyProject(deadlineType, projectType) ==
    {rule \in LienRules : rule.rule_type = deadlineType}

\* SELECT * FROM colorado_lien_rules WHERE rule_type = $1 AND project_type = $2
SelectRules(deadlineType, projectType) ==
    {rule \in LienRules : rule.rule_type = deadlineType /\ rule.project_type = projectType}

\* const { projectType = 'private' } = req.body
ProjectTypeOr(projectType) == IF projectType = Absent THEN "private" ELSE Val(projectType)

\* the 200 body: the deadline computed from the rule
CalculateBody(zone, rule, triggerDate) ==
    [deadlineDate |-> IsoDateOf(SetDatePlus(zone, ParseIsoDate(triggerDate), rule.deadline_days)),
     deadlineDays |-> rule.deadline_days,
     description |-> rule.description,
     triggerEvent |-> rule.trigger_event,
     statutoryReference |-> rule.statutory_reference]

\* the answer of POST /deadlines/calculate
CalculateAnswer(zone, deadlineType, triggerDate, projectType, dbOk) ==
    LET rules == SelectRules(Val(deadlineType), ProjectTypeOr(projectType))
    IN  IF deadlineType = Absent \/ triggerDate = Absent THEN [status |-> 400]
        ELSE IF ~dbOk THEN [status |-> 500]
        ELSE IF rules = {} THEN [status |-> 404]
        ELSE IF Val(triggerDate) = NotADate THEN [status |-> 500]
        ELSE [status |-> 200,
              body |-> CalculateBody(zone, CHOOSE rule \in rules : TRUE, Val(triggerDate))]

\* POST /deadlines/calculate: reads the rule table, writes nothing
Calculate(deadlineType, triggerDate, projectType, dbOk) ==
    /\ resp' = [op |-> "calculate",
                req |-> [deadlineType |-> deadlineType, triggerDate |-> triggerDate,
                         projectType |-> projectType, dbOk |-> dbOk],
                res |-> CalculateAnswer(tz, deadlineType, triggerDate, projectType, dbOk)]
    /\ UNCHANGED <<projects, deadlines, nDeadlines, nProjects, tz, secretKey, dbNow, txs, poolFree, call, chat>>
    /\ UNCHANGED ledgerVars

TriggerDays == {IsoDays.d2024_03_05, IsoDays.d2024_06_01, IsoDays.d2024_07_15}

CalculateStep ==
    \E t \in Opt(DeadlineTypes), d \in Opt(TriggerDays \cup {NotADate}),
       p \in Opt(ProjectTypes), dbOk \in BOOLEAN : Calculate(t, d, p, dbOk)

DeadlineInit ==
    /\ projects = <<>>
    /\ deadlines = <<>>
    /\ nDeadlines = 0
    /\ nProjects = 0
    /\ resp = [op |-> "none"]
    /\ dbNow = 0
    /\ txs = [c \in TxIds |-> IdleTx]
    /\ poolFree = PoolSize
    /\ call = IdleCall
    /\ chat = [rows |-> <<>>, requests |-> 0]

\* the calculator alone, in any of the server time zones
----------------------------------------------------------------------------
(* Projects and deadlines *)

\* the deadline routes are followed for one project
ProjectIds == {1}
DeadlineIds == 1..MaxDeadlines
ExistingProjects == DOMAIN projects
ExistingDeadlines == DOMAIN deadlines

\* CURRENT_DATE of the store
CurrentDate == IsoDays.d2024_06_01

\* the answer of a route whose body is not looked at
OtherAnswer == [op |-> "other"]

\* a table with one more row
WithRow(table, id, row) ==
    [i \in DOMAIN table \cup {id} |-> IF i = id THEN row ELSE table[i]]

\* a table with the rows of a sequence added under the ids after n
WithRows(table, n, rows) ==
    [i \in DOMAIN table \cup (n + 1 .. n + Len(rows)) |->
        IF i > n THEN rows[i - n] ELSE table[i]]

\* POST /projects
CreateProject(projectType, workStartDate, workEndDate, dbOk) ==
    /\ nProjects + 1 \in ProjectIds
    /\ IF dbOk
       THEN /\ nProjects' = nProjects + 1
            /\ projects' = WithRow(projects, nProjects + 1,
                                    [project_type |-> projectType,
                                     work_start_date |-> workStartDate,
                                     work_end_date |-> workEndDate])
       ELSE UNCHANGED <<projects, nProjects>>
    /\ resp' = OtherAnswer
    /\ UNCHANGED <<deadlines, nDeadlines, tz, secretKey, dbNow, txs, poolFree, call, chat>>
    /\ UNCHANGED ledgerVars

\* CREATE TRIGGER update_<table>_updated_at BEFORE UPDATE ON <table> FOR EACH ROW
\* EXECUTE FUNCTION update_updated_at_column(): NEW.updated_at = CURRENT_TIMESTAMP
UpdatedAtTrigger(row) == [row EXCEPT !.updated_at = dbNow]

\* the rows that keep a deleted project's id, in place of SET NULL
KeepProjectId(table, id) == table

\* project_id UUID REFERENCES projects(id) ON DELETE SET NULL, for the rows of
\* a table that reference project id: the referential action is an UPDATE of
\* those rows, which fires the table's BEFORE UPDATE trigger
SetNullProjectId(table, id) ==
    [k \in DOMAIN table |->
        IF table[k].project_id = Some(id)
        THEN UpdatedAtTrigger([table[k] EXCEPT !.project_id = Absent])
        ELSE table[k]]

\* DELETE /projects/:id ; deadlines.project_id and invoices.project_id are ON
\* DELETE SET NULL
DeleteProject(id, dbOk) ==
    /\ IF dbOk /\ id \in ExistingProjects
       THEN /\ projects' = [i \in ExistingProjects \ {id} |-> projects[i]]
            /\ deadlines' = SetNullProjectId(deadlines, id)
            /\ invoices' = SetNullProjectId(invoices, id)
       ELSE UNCHANGED <<projects, deadlines, invoices>>
    /\ resp' = OtherAnswer
    /\ UNCHANGED <<nDeadlines, nProjects, tz, secretKey, dbNow, txs, poolFree, call, chat>>
    /\ UNCHANGED <<payments, reqs, nInvoices>>

\* a row of INSERT INTO deadlines: status, completed_date and updated_at take
\* the column defaults
NewDeadlineRow(projectId, deadlineType, deadlineDate, triggerDate, priority) ==
    [project_id |-> projectId, deadline_type |-> deadlineType,
     deadline_date |-> deadlineDate, trigger_date |-> triggerDate,
     status |-> "pending", priority |-> priority, completed_date |-> Absent,
     updated_at |-> dbNow]

\* POST /deadlines ; priority = 'normal' when the body has none
CreateDeadline(projectId, deadlineType, deadlineDate, triggerDate, priority, dbOk) ==
    /\ nDeadlines < MaxDeadlines
    /\ IF \/ deadlineType = Absent \/ deadlineDate = Absent
          \/ ~dbOk
          \/ (projectId # Absent /\ Val(projectId) \notin ExistingProjects)
       THEN UNCHANGED <<deadlines, nDeadlines>>
       ELSE /\ nDeadlines' = nDeadlines + 1
            /\ deadlines' = WithRow(deadlines, nDeadlines + 1,
                                     NewDeadlineRow(projectId, Val(deadlineType), Val(deadlineDate),
                                                    triggerDate,
                                                    IF priority = Absent THEN "normal"
                                                    ELSE Val(priority)))
    /\ resp' = OtherAnswer
    /\ UNCHANGED <<projects, nProjects, tz, secretKey, dbNow, txs, poolFree, call, chat>>
    /\ UNCHANGED ledgerVars

\* new Date(workStartDate || project.work_start_date): a request string is
\* midnight UTC, a DATE column read from the store is midnight local time, and
\* new Date(null) is the epoch
StartDateOf(zone, workStartDate, project) ==
    IF workStartDate # Absent THEN ParseIsoDate(Val(workStartDate))
    ELSE IF project.work_start_date # Absent
    THEN LocalToUtc(zone, Val(project.work_start_date) * 24)
    ELSE 0

\* the preliminary-notice row: 10 days from the start date
PrelimRow(zone, projectId, startDate) ==
    NewDeadlineRow(Some(projectId), "preliminary_notice",
                   IsoDateOf(SetDatePlus(zone, startDate, 10)),
                   Some(IsoDateOf(startDate)), "high")

\* the lien or bond-claim row: 120 days from the end date
LienRow(zone, projectId, endDate, projectType) ==
    NewDeadlineRow(Some(projectId),
                   IF projectType = "private" THEN "mechanics_lien" ELSE "payment_bond_claim",
                   IsoDateOf(SetDatePlus(zone, endDate, 120)),
                   Some(IsoDateOf(endDate)), "critical")

\* if (startDate && projectType === 'private'): startDate is a Date object, which
\* is always truthy
CreatesPrelim(projectType) == projectType = "private"

\* const endDate = workEndDate ? new Date(workEndDate) : null; if (endDate)
CreatesLien(workEndDate, project) == workEndDate # Absent

\* the rows auto-create inserts, in order
AutoCreatePlan(zone, projectId, project, workStartDate, workEndDate, projectType) ==
    (IF CreatesPrelim(projectType)
     THEN <<PrelimRow(zone, projectId, StartDateOf(zone, workStartDate, project))>>
     ELSE <<>>)
    \o
    (IF CreatesLien(workEndDate, project)
     THEN <<LienRow(zone, projectId, ParseIsoDate(Val(workEndDate)), projectType)>>
     ELSE <<>>)

\* POST /deadlines/auto-create.  failAt = 0: every statement succeeds; failAt = k:
\* the k-th statement of the handler (the SELECT, then the INSERTs) fails, the
\* catch answers 500 and the rows inserted before stay.
AutoCreate(userGiven, projectId, workStartDate, workEndDate, projectType, failAt) ==
    LET req == [userGiven |-> userGiven, projectId |-> projectId,
                workStartDate |-> workStartDate, workEndDate |-> workEndDate,
                projectType |-> projectType]
        found == projectId # Absent /\ Val(projectId) \in ExistingProjects
        project == projects[Val(projectId)]
        plan == AutoCreatePlan(tz, Val(projectId), project, workStartDate, workEndDate,
                               ProjectTypeOr(projectType))
        done == IF failAt = 0 THEN plan ELSE SubSeq(plan, 1, failAt - 2)
    IN  /\ nDeadlines + 2 <= MaxDeadlines
        /\ IF ~userGiven \/ projectId = Absent
           THEN /\ failAt = 0
                /\ resp' = [op |-> "autoCreate", req |-> req, project |-> Absent,
                            res |-> [status |-> 400]]
                /\ UNCHANGED <<deadlines, nDeadlines>>
           ELSE IF failAt = 1
           THEN /\ resp' = [op |-> "autoCreate", req |-> req, project |-> Absent,
                            res |-> [status |-> 500]]
                /\ UNCHANGED <<deadlines, nDeadlines>>
           ELSE IF ~found
           THEN /\ failAt = 0
                /\ resp' = [op |-> "autoCreate", req |-> req, project |-> Absent,
                            res |-> [status |-> 404]]
                /\ UNCHANGED <<deadlines, nDeadlines>>
           ELSE /\ failAt <= 1 + Len(plan)
                /\ deadlines' = WithRows(deadlines, nDeadlines, done)
                /\ nDeadlines' = nDeadlines + Len(done)
                /\ resp' = [op |-> "autoCreate", req |-> req, project |-> Some(project),
                            res |-> IF failAt = 0
                                    THEN [status |-> 201, deadlines |-> done]
                                    ELSE [status |-> 500]]
        /\ UNCHANGED <<projects, nProjects, tz, secretKey, dbNow, txs, poolFree, call, chat>>
        /\ UNCHANGED ledgerVars

\* UPDATE deadlines SET deadline_date = COALESCE($1, deadline_date), status =
\* COALESCE($4, status), priority = COALESCE($5, priority), completed_date =
\* COALESCE($7, completed_date) ...
UpdateDeadlineRow(row, deadlineDate, status, priority, completedDate) ==
    [row EXCEPT !.deadline_date = Val(Coalesce(deadlineDate, Some(row.deadline_date))),
                !.status = Val(Coalesce(status, Some(row.status))),
                !.priority = Val(Coalesce(priority, Some(row.priority))),
                !.completed_date = Coalesce(completedDate, row.completed_date),
                !.updated_at = dbNow]

\* PUT /deadlines/:id
UpdateDeadline(id, deadlineDate, status, priority, completedDate, dbOk) ==
    /\ IF dbOk /\ id \in ExistingDeadlines
       THEN deadlines' = [deadlines EXCEPT ![id] =
                            UpdateDeadlineRow(deadlines[id], deadlineDate, status, priority,
                                              completedDate)]
       ELSE UNCHANGED deadlines
    /\ resp' = RowAnswer("updateDeadline", id \in ExistingDeadlines, dbOk)
    /\ UNCHANGED <<projects, nDeadlines, nProjects, tz, secretKey, dbNow, txs, poolFree, call, chat>>
    /\ UNCHANGED ledgerVars

\* a completion that only moves a pending row
CompleteDeadlineRowIfPending(row) ==
    IF row.status = "pending"
    THEN [row EXCEPT !.status = "completed", !.completed_date = Some(CurrentDate),
                     !.updated_at = dbNow]
    ELSE row

\* UPDATE deadlines SET status = 'completed', completed_date = CURRENT_DATE
CompleteDeadlineRow(row) ==
    [row EXCEPT !.status = "completed", !.completed_date = Some(CurrentDate),
                !.updated_at = dbNow]

\* POST /deadlines/:id/complete
CompleteDeadline(id, dbOk) ==
    /\ IF dbOk /\ id \in ExistingDeadlines
       THEN deadlines' = [deadlines EXCEPT ![id] = CompleteDeadlineRow(deadlines[id])]
       ELSE UNCHANGED deadlines
    /\ resp' = OtherAnswer
    /\ UNCHANGED <<projects, nDeadlines, nProjects, tz, secretKey, dbNow, txs, poolFree, call, chat>>
    /\ UNCHANGED ledgerVars

\* DELETE /deadlines/:id
DeleteDeadline(id, dbOk) ==
    /\ IF dbOk /\ id \in ExistingDeadlines
       THEN deadlines' = [d \in ExistingDeadlines \ {id} |-> deadlines[d]]
       ELSE UNCHANGED deadlines
    /\ resp' = OtherAnswer
    /\ UNCHANGED <<projects, nDeadlines, nProjects, tz, secretKey, dbNow, txs, poolFree, call, chat>>
    /\ UNCHANGED ledgerVars

\* Math.ceil(hours / 24): diffTime is in milliseconds, here in hours
CeilDays(hours) == -((-hours) \div 24)

\* the day count rounded down instead of up
DaysRemainingFloor(zone, deadlineDay, now) ==
    (LocalToUtc(zone, deadlineDay * 24) - now) \div 24

\* daysRemaining: a DATE column is read from the store as midnight local time,
\* today = new Date() is the current instant
DaysRemaining(zone, deadlineDay, now) ==
    CeilDays(LocalToUtc(zone, deadlineDay * 24) - now)

\* autoPriority: the stored priority unless it is 'normal', else the tier of
\* daysRemaining
AutoPriority(priority, daysRemaining) ==
    IF priority # "normal" THEN priority
    ELSE IF daysRemaining < 0 THEN "critical"
    ELSE IF daysRemaining <= 7 THEN "critical"
    ELSE IF daysRemaining <= 14 THEN "high"
    ELSE IF daysRemaining <= 30 THEN "normal"
    ELSE "low"

\* { ...deadline, days_remaining, calculated_priority }
ListedDeadline(zone, id, row, now) ==
    [id |-> id, row |-> row,
     days_remaining |-> DaysRemaining(zone, row.deadline_date, now),
     calculated_priority |->
         AutoPriority(row.priority, DaysRemaining(zone, row.deadline_date, now))]

\* the rows of SELECT d.* FROM deadlines d ... [AND d.status = $2]
SelectDeadlines(table, status) ==
    {id \in DOMAIN table : status = Absent \/ table[id].status = Val(status)}

\* the list query writing each computed priority back to its row
StoredAfterListPersisting(table, listed) ==
    [id \in DOMAIN table |->
        IF \E e \in listed : e.id = id
        THEN [table[id] EXCEPT !.priority =
                 (CHOOSE e \in listed : e.id = id).calculated_priority]
        ELSE table[id]]

\* the deadlines table after GET /deadlines: the handler's only statement is a
\* SELECT
StoredAfterList(table, listed) == table

\* the answer of GET /deadlines (the order of the list, by deadline_date, is not
\* followed)
ListAnswer(zone, table, userGiven, status, now, dbOk) ==
    IF ~userGiven THEN [status |-> 400]
    ELSE IF ~dbOk THEN [status |-> 500]
    ELSE [status |-> 200,
          deadlines |-> {ListedDeadline(zone, id, table[id], now) :
                            id \in SelectDeadlines(table, status)}]

\* GET /deadlines?userId=..&status=.. at the instant now
ListDeadlines(userGiven, status, now, dbOk) ==
    LET res == ListAnswer(tz, deadlines, userGiven, status, now, dbOk)
    IN  /\ resp' = [op |-> "list",
                    req |-> [userGiven |-> userGiven, status |-> status, now |-> now],
                    res |-> res]
        /\ deadlines' = StoredAfterList(deadlines,
                                        IF res.status = 200 THEN res.deadlines ELSE {})
        /\ UNCHANGED <<projects, nDeadlines, nProjects, tz, secretKey, dbNow, txs, poolFree, call, chat>>
        /\ UNCHANGED ledgerVars

StartDays == {IsoDays.d2024_03_05}
EndDays == {IsoDays.d2024_07_15}

DeadlineNext ==
    \/ \E dbOk \in BOOLEAN :
          \E t \in Bodies(dbOk, {Some(x) : x \in ProjectTypes}), s \in Bodies(dbOk, Opt(StartDays)),
             e \in Bodies(dbOk, Opt(EndDays)) : CreateProject(t, s, e, dbOk)
    \/ \E id \in ProjectIds, dbOk \in BOOLEAN : DeleteProject(id, dbOk)
    \/ \E dbOk \in BOOLEAN :
          \E p \in Bodies(dbOk, Opt(ProjectIds)), t \in Bodies(dbOk, Opt({"custom"})),
             d \in Bodies(dbOk, Opt({IsoDays.d2024_06_01})) :
             CreateDeadline(p, t, d, Absent, Absent, dbOk)
    \/ \E u \in BOOLEAN, p \in Opt(ProjectIds), s \in Opt(StartDays), e \in Opt(EndDays),
          t \in Opt(ProjectTypes), failAt \in 0..3 : AutoCreate(u, p, s, e, t, failAt)
    \/ \E id \in DeadlineIds, dbOk \in BOOLEAN :
          \E s \in Bodies(dbOk, Opt({"pending", "completed"})),
             c \in Bodies(dbOk, Opt({IsoDays.d2024_06_01})) :
             UpdateDeadline(id, Absent, s, Absent, c, dbOk)
    \/ \E id \in DeadlineIds, dbOk \in BOOLEAN : CompleteDeadline(id, dbOk)
    \/ \E id \in DeadlineIds, dbOk \in BOOLEAN : DeleteDeadline(id, dbOk)

InitDeadlines == LedgerInit /\ DeadlineInit /\ tz \in ZoneNames /\ secretKey = DefaultSecret

\* the project and deadline routes
SpecDeadlines == InitDeadlines /\ [][DeadlineNext]_vars

\* the day the listed deadlines fall on, and the instants at which they are
\* listed: noon UTC of the days 31, 30, 15, 14, 8, 7 and 1 before it, of the day
\* itself and of the two days after it
ListDays == {IsoDays.d2024_06_01}
DaysBefore == {31, 30, 15, 14, 8, 7, 1, 0, -1, -2}
NowInstants == {(day - k) * 24 + 12 : day \in ListDays, k \in DaysBefore}
ManualPriorities == {"low", "normal", "high", "critical"}

ListStep ==
    \E u \in BOOLEAN, dbOk \in BOOLEAN :
        \E s \in Bodies(dbOk /\ u, Opt({"completed"})), now \in Bodies(dbOk /\ u, NowInstants) :
            ListDeadlines(u, s, now, dbOk)

\* the deadline list with the routes that create and change deadlines
ListNext ==
    \/ \E dbOk \in BOOLEAN :
          \E d \in Bodies(dbOk, Opt(ListDays)), p \in Bodies(dbOk, Opt(ManualPriorities)) :
             CreateDeadline(Absent, Some("custom"), d, Absent, p, dbOk)
    \/ \E id \in DeadlineIds, dbOk \in BOOLEAN :
          \E s \in Bodies(dbOk, Opt({"completed"})), p \in Bodies(dbOk, Opt(ManualPriorities)) :
             UpdateDeadline(id, Absent, s, p, Absent, dbOk)
    \/ ListStep

InitList == LedgerInit /\ DeadlineInit /\ tz \in ZoneNames /\ secretKey = DefaultSecret

SpecList == InitList /\ [][ListNext]_vars

\* the invoice routes without payments
InvoiceNext ==
    \/ \E dbOk \in BOOLEAN :
          \E a \in Bodies(dbOk, Opt({10, 20})), p \in Bodies(dbOk, Opt({10})) :
             CreateInvoice(Absent, a, p, dbOk)
    \/ UpdateInvoiceStep
    \/ \E id \in InvoiceIds, dbOk \in BOOLEAN : DeleteInvoice(id, dbOk)

InitInvoices == LedgerInit /\ DeadlineInit /\ tz = "UTC" /\ secretKey = DefaultSecret

SpecInvoices == InitInvoices /\ [][InvoiceNext]_vars

\* a PUT /invoices/:id of the amount, the status and the paid date
UpdateLedgerFieldsStep ==
    \E id \in InvoiceIds, dbOk \in BOOLEAN :
        \E a \in Bodies(dbOk, Opt({20})), s \in Bodies(dbOk, Opt({"paid", "partial"})),
           d \in Bodies(dbOk, Opt({9})) :
            UpdateInvoice(id, a, Absent, s, d, dbOk)

\* create, recordPayment, update and delete: the invoices that are not imported
InvoiceEditsNext ==
    \/ RecordPaymentStep
    \/ \E a \in Opt(InvoiceAmounts \cup {0}), dbOk \in BOOLEAN :
          CreateInvoice(Absent, a, Absent, dbOk)
    \/ UpdateLedgerFieldsStep
    \/ \E id \in InvoiceIds, dbOk \in BOOLEAN : DeleteInvoice(id, dbOk)

\* payments on imported invoices
ImportedNext ==
    \/ RecordPaymentStep
    \/ \E rows \in RowSeqs, k \in 0..MaxInvoices : ImportInvoices(rows, k)

\* every operation on invoices: create, recordPayment, import and delete with
\* the partial update
InvoiceOpsNext == LedgerNext \/ UpdateLedgerFieldsStep

\* the import and recordPayment with their store failures
StoreFailureNext ==
    \/ RecordPaymentStep
    \/ \E rows \in RowSeqs, k \in 0..MaxInvoices, error \in StoreErrors :
          ImportInvoicesAnswered(rows, k, error)

InitInvoiceOps == LedgerInit /\ DeadlineInit /\ tz = "UTC" /\ secretKey = DefaultSecret

SpecInvoiceOps == InitInvoiceOps /\ [][InvoiceOpsNext]_vars

SpecInvoiceEdits == InitInvoiceOps /\ [][InvoiceEditsNext]_vars

SpecStoreFailure == InitInvoiceOps /\ [][StoreFailureNext]_vars

SpecImported == InitInvoiceOps /\ [][ImportedNext]_vars

----------------------------------------------------------------------------
(* The proxy endpoints in front of the upstream services *)

\* getStackForDevsHeaders(): the headers of an upstream request
GetStackForDevsHeaders(secret) ==
    [ContentType |-> "application/json", xApiKey |-> "stk_pub", xSecretKey |-> secret,
     xTenantId |-> "tenant", xProjectId |-> "project"]

\* a header value the runtime's fetch accepts: no NUL, CR or LF inside
LegalHeaderValue(value) == value # "stk_sec\nC"

\* the proxy endpoints that call fetch(upstreamUrl, {headers:
\* getStackForDevsHeaders(..)}) and hand failures to handleProxyError
Endpoints ==
    {[name |-> "Register", url |-> "auth/v1/register"],
     [name |-> "Login", url |-> "auth/v1/login"],
     [name |-> "Refresh Token", url |-> "auth/v1/refresh"],
     [name |-> "Send Email", url |-> "mailer/v1/emails/send"],
     [name |-> "LLM Completion", url |-> "llm/v1/completions"],
     [name |-> "LLM Batch", url |-> "llm/v1/batch"],
     [name |-> "CMS Create Content", url |-> "cms/v1/content"],
     [name |-> "Billing Subscription", url |-> "billing/v1/customer/subscription"],
     [name |-> "Billing Prices", url |-> "billing/v1/stripe/prices"],
     [name |-> "Billing Checkout", url |-> "billing/v1/stripe/checkout/session"]}

\* what the upstream does with a request it receives: a 2xx answer with a JSON or
\* a non-JSON body, an error answer with a JSON or a text body, or no answer
UpstreamReplies ==
    {[kind |-> "ok", status |-> 200, json |-> TRUE, body |-> "data"],
     [kind |-> "ok", status |-> 200, json |-> FALSE, body |-> "<html>"],
     [kind |-> "error", status |-> 401, json |-> TRUE, body |-> "denied"],
     [kind |-> "error", status |-> 502, json |-> FALSE, body |-> "Bad Gateway"],
     [kind |-> "none", status |-> 0, json |-> FALSE, body |-> ""]}

\* await fetch(upstreamUrl, {headers}): the runtime rejects a header value that
\* is not legal with a TypeError whose message quotes the value, and a request
\* that gets no answer with 'fetch failed'; otherwise the upstream's answer
Fetch(headers, reply) ==
    IF ~LegalHeaderValue(headers.xSecretKey)
    THEN [thrown |-> TRUE, name |-> "TypeError",
          message |-> <<"Headers.append: ", headers.xSecretKey,
                        " is an invalid header value.">>]
    ELSE IF reply.kind = "none"
    THEN [thrown |-> TRUE, name |-> "TypeError", message |-> <<"fetch failed">>]
    ELSE [thrown |-> FALSE, name |-> "", message |-> <<>>]

\* handleProxyError with an upstream response whose body can still be read: the
\* upstream's status with its body as error (text) or details (JSON)
UpstreamErrorAnswer(endpoint, reply) ==
    [status |-> reply.status,
     body |-> <<"error", reply.body>> \o
              (IF reply.json THEN <<"details", reply.body>> ELSE <<>>) \o
              <<"_debug", endpoint.name>>]

\* handleProxyError without a readable upstream response: the generated 500 with
\* message: error.message and _debug: {endpoint, upstreamUrl, errorType}
GeneratedErrorAnswer(endpoint, name, message) ==
    [status |-> 500,
     body |-> <<"error", endpoint.name, "message">> \o message \o
              <<"_debug", endpoint.name, endpoint.url, name>>]

\* the answer of a proxy endpoint to the frontend (the _debug timestamp is left
\* out)
ProxyAnswer(secret, endpoint, reply) ==
    LET fetched == Fetch(GetStackForDevsHeaders(secret), reply)
    IN  IF fetched.thrown
        THEN GeneratedErrorAnswer(endpoint, fetched.name, fetched.message)
        ELSE IF reply.kind = "error" THEN UpstreamErrorAnswer(endpoint, reply)
        ELSE IF reply.json THEN [status |-> 200, body |-> <<reply.body>>]
        ELSE GeneratedErrorAnswer(endpoint, "SyntaxError",
                                  <<"Unexpected token in JSON">>)

\* one proxied request
Proxy(endpoint, reply) ==
    /\ resp' = [op |-> "proxy", endpoint |-> endpoint, reply |-> reply,
                res |-> ProxyAnswer(secretKey, endpoint, reply)]
    /\ UNCHANGED <<projects, deadlines, nDeadlines, nProjects, tz, secretKey, dbNow, txs, poolFree, call, chat>>
    /\ UNCHANGED ledgerVars

ProxyStep == \E endpoint \in Endpoints, reply \in UpstreamReplies : Proxy(endpoint, reply)

InitProxy == LedgerInit /\ DeadlineInit /\ tz = "UTC" /\ secretKey \in SecretKeys

SpecProxy == InitProxy /\ [][ProxyStep]_vars

\* the variables a proxied request in flight leaves alone
callFrame == <<projects, deadlines, nDeadlines, nProjects, resp, tz, secretKey, dbNow,
               txs, poolFree, chat>>

\* a request arrives at a proxy endpoint: response = await fetch(upstreamUrl,
\* {method, headers, body}), with no signal and no timeout of its own
CallFetch(endpoint) ==
    /\ call.pc \in {"idle", "done"}
    /\ call' = [IdleCall EXCEPT !.pc = "fetch", !.endpoint = endpoint.name]
    /\ UNCHANGED <<callFrame, ledgerVars>>

\* the response headers arrive: for a 2xx, const data = await response.json();
\* otherwise handleProxyError and its await upstreamResponse.text()
UpstreamHeaders(ok) ==
    /\ call.pc = "fetch" /\ call.quiet < TimeoutTicks
    /\ call' = [call EXCEPT !.pc = "body", !.ok = ok, !.quiet = 0]
    /\ UNCHANGED <<callFrame, ledgerVars>>

\* the connection fails: fetch rejects, the catch block answers the generated 500
FetchFails ==
    /\ call.pc = "fetch"
    /\ call' = [call EXCEPT !.pc = "done", !.status = 500]
    /\ UNCHANGED <<callFrame, ledgerVars>>

\* the upstream sends some more of the body, not the end of it
UpstreamChunk ==
    /\ call.pc = "body" /\ call.quiet < TimeoutTicks
    /\ call' = [call EXCEPT !.quiet = 0, !.chunks = 1 - @]
    /\ UNCHANGED <<callFrame, ledgerVars>>

\* the body ends: res.json(data), or the upstream's error status passed on
UpstreamEnd ==
    /\ call.pc = "body" /\ call.quiet < TimeoutTicks
    /\ call' = [call EXCEPT !.pc = "done", !.status = IF call.ok THEN 200 ELSE 502]
    /\ UNCHANGED <<callFrame, ledgerVars>>

\* time passes without a byte from the upstream
Elapse ==
    /\ call.pc \in {"fetch", "body"} /\ call.quiet < TimeoutTicks
    /\ call' = [call EXCEPT !.quiet = @ + 1]
    /\ UNCHANGED <<callFrame, ledgerVars>>

\* the runtime gives up on a silent upstream: fetch, or the read of the body,
\* rejects and handleProxyError answers the generated 500
RuntimeTimeout ==
    /\ call.pc \in {"fetch", "body"} /\ call.quiet = TimeoutTicks
    /\ call' = [call EXCEPT !.pc = "done", !.status = 500]
    /\ UNCHANGED <<callFrame, ledgerVars>>

CallNext ==
    \/ \E endpoint \in Endpoints : CallFetch(endpoint)
    \/ \E ok \in BOOLEAN : UpstreamHeaders(ok)
    \/ FetchFails
    \/ UpstreamChunk
    \/ UpstreamEnd
    \/ Elapse
    \/ RuntimeTimeout

InitCall == LedgerInit /\ DeadlineInit /\ tz = "UTC" /\ secretKey = DefaultSecret

\* the handler runs on whenever a promise settles, time passes, and the runtime's
\* timeouts fire when they are due; nothing obliges the upstream to do anything
SpecCall ==
    /\ InitCall /\ [][CallNext]_vars
    /\ WF_vars(Elapse) /\ WF_vars(RuntimeTimeout)

\* the upstream's answer to GET /v1/batch/:jobId: no answer (fetch throws), an
\* error status, or 200 with the job's status and, perhaps, an errorMessage
BatchStatuses == {"validating", "in_progress", "completed", "failed", "expired", "cancelled"}
BatchStatusReplies ==
    {[kind |-> "none", status |-> "", errorMessage |-> Absent],
     [kind |-> "error", status |-> "", errorMessage |-> Absent]}
    \cup {[kind |-> "ok", status |-> st, errorMessage |-> m] :
            st \in BatchStatuses, m \in Opt({"quota exceeded"})}

\* the upstream's answer to GET /v1/batch/:jobId/results: no answer, an error
\* status, a 200 whose body is not JSON, or a 200 with no results field, with no
\* result, with a first result that is null, or with a first result in the
\* OpenAI, the Anthropic or another format
BatchResultsReplies ==
    {[kind |-> "none", json |-> FALSE, results |-> Absent],
     [kind |-> "error", json |-> FALSE, results |-> Absent],
     [kind |-> "ok", json |-> FALSE, results |-> Absent],
     [kind |-> "ok", json |-> TRUE, results |-> Absent],
     [kind |-> "ok", json |-> TRUE, results |-> Some(<<>>)],
     [kind |-> "ok", json |-> TRUE, results |-> Some(<<[format |-> "null", text |-> ""]>>)],
     [kind |-> "ok", json |-> TRUE, results |-> Some(<<[format |-> "openai", text |-> "4"]>>)],
     [kind |-> "ok", json |-> TRUE, results |-> Some(<<[format |-> "anthropic", text |-> "4"]>>)],
     [kind |-> "ok", json |-> TRUE, results |-> Some(<<[format |-> "other", text |-> "4"]>>)]}

\* the result of a completed batch with a failed results fetch left null
BatchResultOrNull(reply) ==
    IF reply.kind = "ok" /\ reply.json /\ reply.results # Absent /\ Val(reply.results) # <<>>
       /\ Val(reply.results)[1].format \in {"openai", "anthropic"}
    THEN Some(Val(reply.results)[1].text)
    ELSE Absent

\* the result of a completed batch: the text of the first result in the OpenAI or
\* the Anthropic format, else one of the handler's messages; whatever the results
\* fetch throws (no answer, a body that is not JSON, a first result that is null)
\* is caught by the inner catch block
BatchResult(reply) ==
    IF reply.kind = "none" \/ (reply.kind = "ok" /\ ~reply.json)
    THEN Some("Batch processing completed successfully, but there was an issue retrieving the results.")
    ELSE IF reply.kind = "error"
    THEN Some("Batch processing completed successfully, but there was an issue retrieving the results. This is a known issue")
    ELSE IF reply.results = Absent \/ Val(reply.results) = <<>>
    THEN Some("Batch completed but no results were returned.")
    ELSE IF Val(reply.results)[1].format = "null"
    THEN Some("Batch processing completed successfully, but there was an issue retrieving the results.")
    ELSE IF Val(reply.results)[1].format \in {"openai", "anthropic"}
    THEN Some(Val(reply.results)[1].text)
    ELSE Some("Batch completed but result format is unexpected.")

\* error = data.errorMessage || `Batch ${data.status}`
BatchError(data) ==
    IF data.errorMessage # Absent THEN data.errorMessage ELSE Some(<<"Batch ", data.status>>)

\* the answer of GET /api/llm/batch/:jobId and the upstream URLs it fetched
BatchStatusAnswer(statusReply, resultsReply) ==
    IF statusReply.kind = "none"
    THEN [status |-> 500, fetched |-> <<"batch">>]
    ELSE IF statusReply.kind = "error"
    THEN [status |-> 502, fetched |-> <<"batch">>]
    ELSE IF statusReply.status = "completed"
    THEN [status |-> 200, fetched |-> <<"batch", "results">>,
          body |-> [status |-> statusReply.status, result |-> BatchResult(resultsReply),
                    error |-> Absent]]
    ELSE IF statusReply.status \in {"failed", "expired", "cancelled"}
    THEN [status |-> 200, fetched |-> <<"batch">>,
          body |-> [status |-> statusReply.status, result |-> Absent,
                    error |-> BatchError(statusReply)]]
    ELSE [status |-> 200, fetched |-> <<"batch">>,
          body |-> [status |-> statusReply.status, result |-> Absent, error |-> Absent]]

\* GET /api/llm/batch/:jobId
BatchStatus(statusReply, resultsReply) ==
    /\ resp' = [op |-> "batchStatus", statusReply |-> statusReply,
                resultsReply |-> resultsReply,
                res |-> BatchStatusAnswer(statusReply, resultsReply)]
    /\ UNCHANGED <<projects, deadlines, nDeadlines, nProjects, tz, secretKey, dbNow, txs,
                   poolFree, call, chat>>
    /\ UNCHANGED ledgerVars

BatchStep ==
    \E statusReply \in BatchStatusReplies, resultsReply \in BatchResultsReplies :
        BatchStatus(statusReply, resultsReply)

InitBatch == LedgerInit /\ DeadlineInit /\ tz = "UTC" /\ secretKey = DefaultSecret

SpecBatch == InitBatch /\ [][BatchStep]_vars

\* INSERT INTO chat_history (id, user_id, message, role, ...): the row of a
\* request, with the role of its author
ChatRow(request, role) == [request |-> request, role |-> role]

\* the rows POST /chat/message has inserted when its failAt-th awaited operation
\* fails (0: none does).  The operations are the INSERT of the user's message,
\* the SELECT of the recent history, the LLM call (or an answer that is not ok)
\* and the INSERT of the assistant's reply; each INSERT is a statement of its own
\* and commits at once
ChatRowsInserted(request, failAt) ==
    IF failAt = 1 THEN <<>>
    ELSE IF failAt \in {2, 3, 4} THEN <<ChatRow(request, "user")>>
    ELSE <<ChatRow(request, "user"), ChatRow(request, "assistant")>>

\* POST /chat/message: 400 without userId or message, 500 from the catch block
\* (an error of the LLM service has no status 401 of its own), else 200
ChatMessage(valid, failAt) ==
    /\ chat.requests < MaxChats
    /\ ~valid => failAt = 0
    /\ LET request == chat.requests + 1
       IN  /\ chat' = [rows |-> IF valid THEN chat.rows \o ChatRowsInserted(request, failAt)
                                ELSE chat.rows,
                       requests |-> request]
           /\ resp' = [op |-> "chatMessage", request |-> request,
                       res |-> [status |-> IF ~valid THEN 400
                                           ELSE IF failAt = 0 THEN 200 ELSE 500]]
    /\ UNCHANGED <<projects, deadlines, nDeadlines, nProjects, tz, secretKey, dbNow, txs,
                   poolFree, call>>
    /\ UNCHANGED ledgerVars

ChatStep == \E valid \in BOOLEAN, failAt \in 0..4 : ChatMessage(valid, failAt)

InitChat == LedgerInit /\ DeadlineInit /\ tz = "UTC" /\ secretKey = DefaultSecret

SpecChat == InitChat /\ [][ChatStep]_vars

\* the values the partial updates supply, each field present or not
PutDeadlineDates == {IsoDays.d2024_07_15}
PutDeadlineStatuses == {"completed"}
PutDeadlinePriorities == {"high"}
PutCompletedDates == {IsoDays.d2024_06_01}
PutAmounts == {20}
PutRetainagePercents == {10}
PutPaymentStatuses == {"paid"}
PutPaidDates == {9}

\* create, partial update and delete of invoice rows
InvoiceRowsNext ==
    \/ \E dbOk \in BOOLEAN : CreateInvoice(Absent, Some(10), Absent, dbOk)
    \/ \E id \in InvoiceIds, dbOk \in BOOLEAN :
          \E a \in Bodies(dbOk, Opt(PutAmounts)), p \in Bodies(dbOk, Opt(PutRetainagePercents)),
             s \in Bodies(dbOk, Opt(PutPaymentStatuses)), d \in Bodies(dbOk, Opt(PutPaidDates)) :
             UpdateInvoice(id, a, p, s, d, dbOk)
    \/ \E id \in InvoiceIds, dbOk \in BOOLEAN : DeleteInvoice(id, dbOk)

\* create, partial update and delete of deadline rows
DeadlineRowsNext ==
    \/ \E dbOk \in BOOLEAN :
          CreateDeadline(Absent, Some("custom"), Some(IsoDays.d2024_06_01), Absent, Absent, dbOk)
    \/ \E id \in DeadlineIds, dbOk \in BOOLEAN :
          \E dd \in Bodies(dbOk, Opt(PutDeadlineDates)), s \in Bodies(dbOk, Opt(PutDeadlineStatuses)),
             p \in Bodies(dbOk, Opt(PutDeadlinePriorities)),
             c \in Bodies(dbOk, Opt(PutCompletedDates)) :
             UpdateDeadline(id, dd, s, p, c, dbOk)
    \/ \E id \in DeadlineIds, dbOk \in BOOLEAN : DeleteDeadline(id, dbOk)

\* the two tables share no statement of these routes: a behaviour follows the
\* rows of one of them
RowsNext ==
    \/ nDeadlines = 0 /\ nInvoices <= MaxRows /\ InvoiceRowsNext /\ nInvoices' <= MaxRows
    \/ nInvoices = 0 /\ nDeadlines <= MaxRows /\ DeadlineRowsNext /\ nDeadlines' <= MaxRows

InitRows == LedgerInit /\ DeadlineInit /\ tz = "UTC" /\ secretKey = DefaultSecret

SpecRows == InitRows /\ [][RowsNext]_vars

\* CURRENT_TIMESTAMP moves on between two statements
Tick ==
    /\ dbNow < MaxClock
    /\ dbNow' = dbNow + 1
    /\ UNCHANGED <<projects, deadlines, nDeadlines, nProjects, resp, tz, secretKey,
                   txs, poolFree, call, chat>>
    /\ UNCHANGED ledgerVars

\* a project with the deadlines and invoices that reference it, and others that
\* do not: in this scenario the project's deadlines are mechanics_lien rows and
\* its invoices are of amount 20, the others are custom rows and of amount 10
ProjectNext ==
    \/ \E t \in {"private", "public"}, dbOk \in BOOLEAN :
          CreateProject(Some(t), Absent, Absent, dbOk)
    \/ \E id \in ProjectIds, dbOk \in BOOLEAN : DeleteProject(id, dbOk)
    \/ \E p \in ProjectIds, d \in {IsoDays.d2024_06_01, IsoDays.d2024_07_15}, dbOk \in BOOLEAN :
          CreateDeadline(Some(p), Some("mechanics_lien"), Some(d), Absent, Absent, dbOk)
    \/ \E dbOk \in BOOLEAN :
          CreateDeadline(Absent, Some("custom"), Some(IsoDays.d2024_06_01), Absent, Absent, dbOk)
    \/ \E p \in ProjectIds, dbOk \in BOOLEAN : CreateInvoice(Some(p), Some(20), Absent, dbOk)
    \/ \E dbOk \in BOOLEAN : CreateInvoice(Absent, Some(10), Absent, dbOk)
    \/ Tick

InitProjects == LedgerInit /\ DeadlineInit /\ tz = "UTC" /\ secretKey = DefaultSecret

SpecProjects == InitProjects /\ [][ProjectNext]_vars

\* the status values and the completion day a PUT sends in the behaviours that
\* follow the completion of a deadline
CompletionStatuses == {"pending", "cancelled", "completed"}
CompletionDays == {IsoDays.d2024_07_15}

\* PUT /deadlines/:id with a status, a completed date, or both
UpdateCompletionStep ==
    \E id \in DeadlineIds, dbOk \in BOOLEAN :
        \E s \in Bodies(dbOk, Opt(CompletionStatuses)), c \in Bodies(dbOk, Opt(CompletionDays)) :
            UpdateDeadline(id, Absent, s, Absent, c, dbOk)

\* the completion route among the other routes that read or write deadlines
CompletionNext ==
    \/ \E dbOk \in BOOLEAN : CreateProject(Some("private"), Absent, Absent, dbOk)
    \/ \E id \in ProjectIds, dbOk \in BOOLEAN : DeleteProject(id, dbOk)
    \/ \E p \in Opt(ProjectIds), dbOk \in BOOLEAN :
          /\ CreateDeadline(p, Some("custom"), Some(IsoDays.d2024_06_01), Absent, Absent, dbOk)
          /\ nDeadlines' <= MaxRows
    \/ UpdateCompletionStep
    \/ \E id \in DeadlineIds, dbOk \in BOOLEAN : CompleteDeadline(id, dbOk)
    \/ \E id \in DeadlineIds, dbOk \in BOOLEAN : DeleteDeadline(id, dbOk)
    \/ \E dbOk \in BOOLEAN : ListDeadlines(TRUE, Absent, CurrentDate * 24 + 12, dbOk)
    \/ Tick

InitCompletion == LedgerInit /\ DeadlineInit /\ tz = "UTC" /\ secretKey = DefaultSecret

SpecCompletion == InitCompletion /\ [][CompletionNext]_vars

InitTx == LedgerInit /\ DeadlineInit /\ tz = "UTC" /\ secretKey = DefaultSecret

SpecTx == InitTx /\ [][TxNext]_vars

\* every route of the model
Init == LedgerInit /\ DeadlineInit /\ tz \in ZoneNames /\ secretKey \in SecretKeys

Next ==
    LedgerNext \/ UpdateInvoiceStep \/ DeadlineNext \/ CalculateStep \/ ListNext \/ ProxyStep
    \/ InvoiceRowsNext \/ DeadlineRowsNext \/ ProjectNext \/ TxNext \/ CallNext \/ BatchStep \/ ChatStep

Spec == Init /\ [][Next]_vars

InitCalc == LedgerInit /\ DeadlineInit /\ tz \in ZoneNames /\ secretKey = DefaultSecret

SpecCalc == InitCalc /\ [][CalculateStep]_vars

\* the ledger routes alone
InitLedger == LedgerInit /\ DeadlineInit /\ tz = "UTC" /\ secretKey = DefaultSecret

SpecLedger == InitLedger /\ [][LedgerNext]_vars

----------------------------------------------------------------------------
(* Properties of the ledger *)

RECURSIVE SumAmounts(_)
SumAmounts(rows) ==
    IF rows = {} THEN 0
    ELSE LET p == CHOOSE x \in rows : TRUE
         IN  p.amount + SumAmounts(rows \ {p})

PaymentsOf(i) == {p \in payments : p.invoice_id = i}
AcceptedPaymentsOf(i) == {p \in PaymentsOf(i) : reqs[p.id].status = 201}
InFlightOn(i) == \E r \in RequestIds : reqs[r].pc = "inserted" /\ reqs[r].invoiceId = i

\* the status the ledger contract derives from a balance
StatusOf(paid, amount) ==
    IF paid >= amount THEN "paid" ELSE IF paid > 0 THEN "partial" ELSE "pending"

\* the step in which request r's UPDATE changes its invoice and r is answered 201
PaymentApplied(r) ==
    /\ reqs[r].pc = "inserted"
    /\ reqs'[r].status = 201
    /\ reqs[r].invoiceId \in ExistingInvoices

\* C1: recordPayment is atomic: once no request on an invoice is between its two
\* statements, every stored Payment row of the invoice is reflected in amount_paid
\* (a failure after the insert leaves neither write committed).
C1_PaymentAtomic ==
    \A i \in ExistingInvoices :
        ~InFlightOn(i) =>
            invoices[i].amount_paid = invoices[i].initial_paid + SumAmounts(PaymentsOf(i))

\* C2: no interleaving of recordPayment requests loses an update: amount_paid is
\* the initial balance plus the amounts of all payments answered 201, and once a
\* payment was applied the status is the one derived from that sum.
C2_NoLostUpdate ==
    \A i \in ExistingInvoices :
        /\ invoices[i].amount_paid =
              invoices[i].initial_paid + SumAmounts(AcceptedPaymentsOf(i))
        /\ AcceptedPaymentsOf(i) # {} =>
              invoices[i].payment_status = StatusOf(invoices[i].amount_paid, invoices[i].amount)

\* two requests whose statements interleaved were both answered 201 and brought a
\* zero-balance invoice to exactly its amount
C2_Witness ==
    \E i \in ExistingInvoices, r, q \in RequestIds :
        /\ r # q
        /\ reqs[r].status = 201 /\ reqs[q].status = 201
        /\ reqs[r].concurrent
        /\ {p.id : p \in PaymentsOf(i)} = {r, q}
        /\ invoices[i].initial_paid = 0
        /\ invoices[i].amount_paid = invoices[i].amount
        /\ invoices[i].payment_status = "paid"

\* C3: a successful recordPayment adds the payment's amount to amount_paid, with
\* no upper clamp.
C3_NoClamp ==
    [][\A r \in RequestIds :
          PaymentApplied(r) =>
              invoices'[reqs[r].invoiceId].amount_paid =
                  invoices[reqs[r].invoiceId].amount_paid + Val(reqs[r].amount)]_vars

\* an accepted payment larger than the whole invoice: amount_paid exceeds amount
\* and the status is paid
C3_Witness ==
    \E i \in ExistingInvoices :
        /\ \E p \in AcceptedPaymentsOf(i) : p.amount > invoices[i].amount
        /\ invoices[i].amount_paid > invoices[i].amount
        /\ invoices[i].payment_status = "paid"

\* C4: after a successful recordPayment the status is derived from the new
\* amount_paid, whatever the status was before.
C4_StatusFromNewBalance ==
    [][\A r \in RequestIds :
          PaymentApplied(r) =>
              LET inv == invoices'[reqs[r].invoiceId]
              IN  inv.payment_status = StatusOf(inv.amount_paid, inv.amount)]_vars

\* an invoice that started fully paid is partial after an accepted payment
C4_Witness ==
    \E i \in ExistingInvoices :
        /\ invoices[i].initial_paid >= invoices[i].amount
        /\ AcceptedPaymentsOf(i) # {}
        /\ invoices[i].payment_status = "partial"

\* C5: paid_date becomes the payment's date only when the payment moves the
\* invoice into paid; any other payment leaves it unchanged.
C5_PaidDateOnTransition ==
    [][\A r \in RequestIds :
          PaymentApplied(r) =>
              LET old == invoices[reqs[r].invoiceId]
                  new == invoices'[reqs[r].invoiceId]
              IN  IF old.payment_status # "paid" /\ new.amount_paid >= new.amount
                  THEN new.paid_date = reqs[r].paymentDate
                  ELSE new.paid_date = old.paid_date]_vars

\* C6: amount_paid never goes below 0 nor below its initial value, and every
\* stored Payment has a positive amount.
C6_LedgerMonotone ==
    /\ \A p \in payments : p.amount > 0
    /\ \A i \in ExistingInvoices :
          invoices[i].amount_paid >= 0 /\ invoices[i].amount_paid >= invoices[i].initial_paid

----------------------------------------------------------------------------
(* Properties of the calculator *)

CalculateAnswered(code) == resp.op = "calculate" /\ resp.res.status = code

\* the seeded rule a request names, if any
SeededFor(req) ==
    {rule \in LienRules : /\ req.deadlineType = Some(rule.rule_type)
                          /\ rule.project_type = (IF req.projectType = Absent THEN "private"
                                                   ELSE Val(req.projectType))}

\* C8: for every seeded rule and trigger date T, calculate returns
\* deadlineDate = T + deadline_days exactly, whatever the server time zone, and
\* the rule's other fields unchanged.
C8_CalculateExact ==
    CalculateAnswered(200) =>
        \E rule \in SeededFor(resp.req) :
            /\ resp.res.body.deadlineDate = Val(resp.req.triggerDate) + rule.deadline_days
            /\ resp.res.body.deadlineDays = rule.deadline_days
            /\ resp.res.body.description = rule.description
            /\ resp.res.body.triggerEvent = rule.trigger_event
            /\ resp.res.body.statutoryReference = rule.statutory_reference

\* C9: calculate for a pair with no seeded rule never answers with a deadline:
\* when its lookup ran it answers 404, which is not the 400 of a missing field.
C9_UnseededNotFound ==
    (/\ resp.op = "calculate"
     /\ resp.req.deadlineType # Absent /\ resp.req.triggerDate # Absent
     /\ SeededFor(resp.req) = {})
    => /\ resp.res.status # 200
       /\ resp.res.status # 400
       /\ resp.req.dbOk => resp.res.status = 404

\* a request for payment_bond_claim on a public project, which has no rule, was
\* answered 404
C9_Witness ==
    /\ CalculateAnswered(404)
    /\ resp.req.deadlineType = Some("payment_bond_claim")
    /\ resp.req.projectType = Some("public")
    /\ resp.req.triggerDate # Absent

----------------------------------------------------------------------------
(* Properties of the deadline table and of auto-create *)

\* C7: completed_date is present if and only if status = 'completed'.
C7_CompletedDateIffCompleted ==
    \A d \in ExistingDeadlines :
        (deadlines[d].completed_date # Absent) <=> (deadlines[d].status = "completed")

AutoCreated == resp.op = "autoCreate" /\ resp.res.status = 201

\* a date is known if the request gives it or the project stores it
StartKnown == resp.req.workStartDate # Absent \/ Val(resp.project).work_start_date # Absent
EndKnown == resp.req.workEndDate # Absent \/ Val(resp.project).work_end_date # Absent

\* C10: auto-create on an existing project creates one preliminary_notice when
\* only a start date is known, one mechanics_lien (private) or payment_bond_claim
\* (public) when only an end date is known, two when both are known and none
\* when neither is known; never more than two.
C10_AutoCreateCount ==
    AutoCreated =>
        LET created == resp.res.deadlines
            private == ProjectTypeOr(resp.req.projectType) = "private"
        IN  /\ Len(created) <= 2
            /\ Len(created) = (IF StartKnown THEN 1 ELSE 0) + (IF EndKnown THEN 1 ELSE 0)
            /\ (StartKnown /\ ~EndKnown) =>
                  \A k \in DOMAIN created : created[k].deadline_type = "preliminary_notice"
            /\ (EndKnown /\ ~StartKnown) =>
                  \A k \in DOMAIN created :
                      created[k].deadline_type =
                          (IF private THEN "mechanics_lien" ELSE "payment_bond_claim")

\* the start and end dates an auto-create request is about: the request's own
\* date, else the date stored with the project
StartDayOf(r) ==
    IF r.req.workStartDate # Absent THEN Val(r.req.workStartDate)
    ELSE Val(Val(r.project).work_start_date)
EndDayOf(r) ==
    IF r.req.workEndDate # Absent THEN Val(r.req.workEndDate)
    ELSE Val(Val(r.project).work_end_date)

\* C11: every deadline auto-create persists: a preliminary_notice only for a
\* private project, dated start + 10 days with trigger_date = start and priority
\* high; the end-date deadline is mechanics_lien (private) or payment_bond_claim,
\* dated end + 120 days with trigger_date = end and priority critical; the
\* preliminary notice comes first.
C11_AutoCreateFields ==
    AutoCreated =>
        LET created == resp.res.deadlines
            private == ProjectTypeOr(resp.req.projectType) = "private"
        IN  /\ \A k \in DOMAIN created :
                  IF created[k].deadline_type = "preliminary_notice"
                  THEN /\ private
                       /\ created[k].priority = "high"
                       /\ StartKnown =>
                             /\ created[k].deadline_date = StartDayOf(resp) + 10
                             /\ created[k].trigger_date = Some(StartDayOf(resp))
                  ELSE /\ created[k].deadline_type =
                             (IF private THEN "mechanics_lien" ELSE "payment_bond_claim")
                       /\ created[k].priority = "critical"
                       /\ EndKnown =>
                             /\ created[k].deadline_date = EndDayOf(resp) + 120
                             /\ created[k].trigger_date = Some(EndDayOf(resp))
            /\ Len(created) = 2 => created[1].deadline_type = "preliminary_notice"

----------------------------------------------------------------------------
(* Properties of the deadline list *)

Listed == resp.op = "list" /\ resp.res.status = 200

\* the instant a calendar day begins for the server process
DayStart(day) == LocalToUtc(tz, day * 24)

\* the tier of a day count
TierOf(n) ==
    IF n < 0 \/ n <= 7 THEN "critical"
    ELSE IF n <= 14 THEN "high"
    ELSE IF n <= 30 THEN "normal"
    ELSE "low"

\* C12: every listed deadline has days_remaining = the least whole number of
\* days not below (deadline_date - now), possibly negative, and
\* calculated_priority = the stored priority when that is not 'normal', else
\* the tier of days_remaining.
C12_ListDerivedFields ==
    Listed =>
        \A e \in resp.res.deadlines :
            LET diff == DayStart(e.row.deadline_date) - resp.req.now
                n == e.days_remaining
            IN  /\ (n - 1) * 24 < diff /\ diff <= n * 24
                /\ e.calculated_priority =
                      (IF e.row.priority \in {"low", "high", "critical"}
                       THEN e.row.priority ELSE TierOf(n))

\* a list that holds two overdue deadlines: one kept 'low' by its manual priority
\* and one of stored priority 'normal' that is therefore 'critical'
C12_Witness ==
    /\ Listed
    /\ \E e \in resp.res.deadlines :
          e.row.priority = "low" /\ e.days_remaining < 0 /\ e.calculated_priority = "low"
    /\ \E e \in resp.res.deadlines :
          e.row.priority = "normal" /\ e.days_remaining < 0 /\ e.calculated_priority = "critical"

\* C19: a list query writes nothing: the step that answers it leaves every
\* stored row, its priority column included, as it was.
C19_ListWritesNothing ==
    [][resp'.op = "list" => (deadlines' = deadlines /\ projects' = projects)]_vars

\* a listed row of stored priority 'normal' whose derived priority differs from
\* the stored one and would be another at another instant
C19_Witness ==
    /\ Listed
    /\ \E e \in resp.res.deadlines, now \in NowInstants :
          /\ e.id \in ExistingDeadlines /\ deadlines[e.id] = e.row
          /\ e.row.priority = "normal"
          /\ e.calculated_priority # e.row.priority
          /\ AutoPriority(e.row.priority, DaysRemaining(tz, e.row.deadline_date, now))
                # e.calculated_priority

----------------------------------------------------------------------------
(* Properties of invoice updates *)

\* C13: retainage_amount = amount x retainage_percent / 100 in every state of an
\* invoice created through POST /invoices, whatever fields its updates supplied.
C13_RetainageConsistent ==
    \A i \in ExistingInvoices :
        invoices[i].retainage_amount * 100 = invoices[i].amount * invoices[i].retainage_percent

----------------------------------------------------------------------------
(* Properties of the payment rows *)

\* C14: the payment ledger is append-only: no step of any operation modifies or
\* removes a Payment row that exists.
C14_PaymentsAppendOnly ==
    [][\A p \in payments : p \in payments']_vars

----------------------------------------------------------------------------
(* Properties of requests for rows that do not exist *)

\* C15: an operation addressing an invoice id that does not exist is answered
\* 404 and leaves every stored row unchanged: a well-formed recordPayment for a
\* missing invoice while the store works, and a delete of a missing invoice.
C15_MissingIdNotFound ==
    [][/\ \A r \in RequestIds, id \in InvoiceIds, a \in Opt(PaymentAmounts) :
             (/\ id \notin ExistingInvoices
              /\ ~PaymentInvalid(Some(PaymentDateOf(r)), a)
              /\ RecordPaymentInsert(r, id, Some(PaymentDateOf(r)), a, TRUE))
             => (reqs'[r].status = 404 /\ payments' = payments /\ invoices' = invoices)
       /\ \A id \in InvoiceIds :
             (id \notin ExistingInvoices /\ DeleteInvoice(id, TRUE))
             => (payments' = payments /\ invoices' = invoices)]_vars

----------------------------------------------------------------------------
(* Properties of request validation *)

\* C16: a request that lacks a required field or carries a malformed one is
\* answered 400 before any store statement runs: a calculate request without
\* deadlineType or triggerDate, or with a triggerDate that is not a date.
C16_InvalidRequestRejected ==
    (/\ resp.op = "calculate"
     /\ \/ resp.req.deadlineType = Absent
        \/ resp.req.triggerDate = Absent
        \/ resp.req.triggerDate = Some(NotADate))
    => resp.res.status = 400

----------------------------------------------------------------------------
(* Properties of the proxy *)

\* C17: no response body returned to the frontend contains the secret key, and
\* the response is the same whatever the value of the secret key, the upstream's
\* reply being the same.
C17_SecretStaysServerSide ==
    resp.op = "proxy" =>
        /\ \A k \in DOMAIN resp.res.body : resp.res.body[k] # secretKey
        /\ \A secret \in SecretKeys :
              ProxyAnswer(secret, resp.endpoint, resp.reply) = resp.res

----------------------------------------------------------------------------
(* Properties of partial updates and deletes *)

\* the value of a field after a partial update: the supplied value, else the
\* previous one
Updated(supplied, previous) == IF supplied # Absent THEN Val(supplied) ELSE previous

\* a successful PUT /deadlines/:id changes exactly the supplied fields of its row
DeadlinePutFrame ==
    \A id \in ExistingDeadlines \cap ExistingDeadlines' :
      (deadlines'[id] # deadlines[id] \/ deadlines' = deadlines) =>
      \A dd \in Opt(PutDeadlineDates), s \in Opt(PutDeadlineStatuses),
         p \in Opt(PutDeadlinePriorities), c \in Opt(PutCompletedDates) :
        UpdateDeadline(id, dd, s, p, c, TRUE) =>
            /\ ExistingDeadlines' = ExistingDeadlines
            /\ \A other \in ExistingDeadlines \ {id} : deadlines'[other] = deadlines[other]
            /\ deadlines'[id].deadline_date = Updated(dd, deadlines[id].deadline_date)
            /\ deadlines'[id].status = Updated(s, deadlines[id].status)
            /\ deadlines'[id].priority = Updated(p, deadlines[id].priority)
            /\ deadlines'[id].completed_date =
                  (IF c # Absent THEN c ELSE deadlines[id].completed_date)
            /\ deadlines'[id].project_id = deadlines[id].project_id
            /\ deadlines'[id].deadline_type = deadlines[id].deadline_type
            /\ deadlines'[id].trigger_date = deadlines[id].trigger_date

\* a successful PUT /invoices/:id changes exactly the supplied fields of its row
\* (retainage_amount, which is no field of the body, follows amount and
\* retainagePercent when both are supplied)
InvoicePutFrame ==
    \A id \in ExistingInvoices \cap ExistingInvoices' :
      (invoices'[id] # invoices[id] \/ invoices' = invoices) =>
      \A a \in Opt(PutAmounts), p \in Opt(PutRetainagePercents),
         s \in Opt(PutPaymentStatuses), d \in Opt(PutPaidDates) :
        UpdateInvoice(id, a, p, s, d, TRUE) =>
            /\ ExistingInvoices' = ExistingInvoices
            /\ \A other \in ExistingInvoices \ {id} : invoices'[other] = invoices[other]
            /\ invoices'[id].amount = Updated(a, invoices[id].amount)
            /\ invoices'[id].retainage_percent = Updated(p, invoices[id].retainage_percent)
            /\ invoices'[id].payment_status = Updated(s, invoices[id].payment_status)
            /\ invoices'[id].paid_date = (IF d # Absent THEN d ELSE invoices[id].paid_date)
            /\ (a = Absent \/ p = Absent) =>
                  invoices'[id].retainage_amount = invoices[id].retainage_amount
            /\ invoices'[id].amount_paid = invoices[id].amount_paid
            /\ invoices'[id].project_id = invoices[id].project_id

\* a successful DELETE removes the row, and an id whose row is gone finds no row
\* in any later step
DeletedStaysGone ==
    /\ \A id \in DeadlineIds :
          /\ (id \in ExistingDeadlines /\ DeleteDeadline(id, TRUE)) => id \notin ExistingDeadlines'
          /\ (id <= nDeadlines /\ id \notin ExistingDeadlines) => id \notin ExistingDeadlines'
    /\ \A id \in InvoiceIds :
          /\ (id \in ExistingInvoices /\ DeleteInvoice(id, TRUE)) => id \notin ExistingInvoices'
          /\ (id <= nInvoices /\ id \notin ExistingInvoices) => id \notin ExistingInvoices'

----------------------------------------------------------------------------
(* Properties of project deletion *)

\* a row without its reference to project id, every other field as before
Dereferenced(row, id) ==
    IF row.project_id = Some(id) THEN [row EXCEPT !.project_id = Absent] ELSE row

\* the same, with updated_at moved to the time of the deletion
DereferencedAt(row, id, now) ==
    IF row.project_id = Some(id)
    THEN [row EXCEPT !.project_id = Absent, !.updated_at = now]
    ELSE row

\* C20 as stated: deleting a project deletes no deadline and no invoice: each row
\* that referenced the project still exists with its project reference absent
\* and all its other fields unchanged.
C20_ProjectDeleteKeepsRows ==
    [][\A id \in ProjectIds :
          (id \in ExistingProjects /\ DeleteProject(id, TRUE)) =>
              /\ ExistingDeadlines' = ExistingDeadlines
              /\ \A d \in ExistingDeadlines : deadlines'[d] = Dereferenced(deadlines[d], id)
              /\ ExistingInvoices' = ExistingInvoices
              /\ \A i \in ExistingInvoices : invoices'[i] = Dereferenced(invoices[i], id)]_vars

\* C20, amended: deleting a project deletes no deadline, no invoice and no
\* payment: each row that referenced the project still exists with its project
\* reference absent, its updated_at at the time of the deletion and all its
\* other fields unchanged, and every other row is untouched.
C20_ProjectDeleteSetsNull ==
    [][\A id \in ProjectIds :
          (id \in ExistingProjects /\ DeleteProject(id, TRUE)) =>
              /\ ExistingDeadlines' = ExistingDeadlines
              /\ \A d \in ExistingDeadlines :
                    deadlines'[d] = DereferencedAt(deadlines[d], id, dbNow)
              /\ ExistingInvoices' = ExistingInvoices
              /\ \A i \in ExistingInvoices :
                    invoices'[i] = DereferencedAt(invoices[i], id, dbNow)
              /\ payments' = payments]_vars

\* the project is deleted after the clock has moved on; a
\* deadline and an invoice that referenced it exist without a project reference
C20_Witness ==
    /\ nProjects = 1 /\ ExistingProjects = {}
    /\ \E d \in ExistingDeadlines :
          /\ deadlines[d].deadline_type = "mechanics_lien"
          /\ deadlines[d].project_id = Absent /\ deadlines[d].updated_at = 1
    /\ \E i \in ExistingInvoices :
          /\ invoices[i].amount = 20
          /\ invoices[i].project_id = Absent /\ invoices[i].updated_at = 1

----------------------------------------------------------------------------
(* Properties of transaction(callback) *)

\* how often a statement was issued on the client of a call
Issued(tx, statement) == Cardinality({i \in DOMAIN tx.log : tx.log[i] = statement})

\* the last statement issued on the client of a call
LastIssued(tx) == tx.log[Len(tx.log)]

\* the calls that hold a client of the pool
HoldingClient == {c \in TxIds : txs[c].pc \in {"BEGIN", "callback", "COMMIT", "ROLLBACK"}}

\* C21 as stated: every finished call issued BEGIN first and ended with exactly
\* one of COMMIT, the callback's result handed to the caller, or ROLLBACK, the
\* error the catch block caught thrown on to the caller; it released its client
\* exactly once.
C21_TransactionEndsOnce ==
    \A c \in TxIds :
        txs[c].pc = "done" =>
            /\ Len(txs[c].log) >= 2 /\ txs[c].log[1] = "BEGIN"
            /\ LastIssued(txs[c]) \in {"COMMIT", "ROLLBACK"}
            /\ LastIssued(txs[c]) = "COMMIT" => txs[c].outcome = "returned"
            /\ LastIssued(txs[c]) = "ROLLBACK" =>
                  (txs[c].outcome = "threw" /\ txs[c].error = txs[c].caught)
            /\ txs[c].released = 1

\* C21, amended: a call whose pool.connect() fails issues no statement, releases
\* nothing and throws.  Every other finished call issued BEGIN first, released
\* its client exactly once, and ended in one of two ways: its last statement is
\* COMMIT, issued once after BEGIN with no ROLLBACK, and the caller has the
\* result; or its last statement is the one ROLLBACK, issued after BEGIN, the
\* callback or COMMIT failed, and the caller has an error: the one caught, or
\* the ROLLBACK's own when ROLLBACK failed.  No call releases before it is
\* finished, and the pool holds every client that no running call holds.
C21_TransactionDiscipline ==
    /\ \A c \in TxIds :
          LET tx == txs[c]
          IN  /\ tx.log # <<>> => tx.log[1] = "BEGIN"
              /\ Issued(tx, "BEGIN") <= 1 /\ Issued(tx, "COMMIT") <= 1
              /\ Issued(tx, "ROLLBACK") <= 1
              /\ tx.pc # "done" => (tx.released = 0 /\ tx.outcome = "none")
              /\ (tx.pc = "done" /\ tx.error = "connect") =>
                    (tx.log = <<>> /\ tx.released = 0 /\ tx.outcome = "threw")
              /\ (tx.pc = "done" /\ tx.error # "connect") =>
                    /\ tx.released = 1
                    /\ \/ /\ tx.outcome = "returned"
                          /\ tx.log = <<"BEGIN", "COMMIT">>
                       \/ /\ tx.outcome = "threw"
                          /\ LastIssued(tx) = "ROLLBACK"
                          /\ tx.caught \in {"BEGIN", "callback", "COMMIT"}
                          /\ tx.error \in {tx.caught, "ROLLBACK"}
                          /\ Issued(tx, "COMMIT") = 1 <=> tx.caught = "COMMIT"
    /\ poolFree = PoolSize - Cardinality(HoldingClient)

\* one call failed to connect; another had its COMMIT and then its ROLLBACK
\* fail, threw the ROLLBACK's error and released its client
C21_Witness ==
    /\ \E c \in TxIds : txs[c].pc = "done" /\ txs[c].error = "connect"
    /\ \E c \in TxIds :
          /\ txs[c].pc = "done" /\ txs[c].log = <<"BEGIN", "COMMIT", "ROLLBACK">>
          /\ txs[c].caught = "COMMIT" /\ txs[c].error = "ROLLBACK"
          /\ txs[c].released = 1
    /\ poolFree = PoolSize

----------------------------------------------------------------------------
(* Properties of the invoice row under every operation *)

\* C22: in every state of an invoice, after any create, recordPayment, update
\* and import, paid_date is set only if amount_paid >= amount.
C22_PaidDateOnlyWhenPaid ==
    \A i \in ExistingInvoices :
        invoices[i].paid_date # Absent => invoices[i].amount_paid >= invoices[i].amount

\* C26: in every state of an invoice, after any create, recordPayment and
\* update, payment_status is 'paid' if and only if amount_paid >= amount, and
\* 'partial' implies 0 < amount_paid < amount.
C26_StatusMatchesBalance ==
    \A i \in ExistingInvoices :
        /\ invoices[i].payment_status = "paid" <=>
              invoices[i].amount_paid >= invoices[i].amount
        /\ invoices[i].payment_status = "partial" =>
              (0 < invoices[i].amount_paid /\ invoices[i].amount_paid < invoices[i].amount)

----------------------------------------------------------------------------
(* Properties of the status a payment assigns *)

\* C25: recordPayment never assigns payment_status 'overdue': after a payment
\* answered 201 the invoice's status is 'pending', 'partial' or 'paid', also
\* when it was 'overdue' before.
C25_PaymentClearsOverdue ==
    [][\A r \in RequestIds :
          (RecordPaymentUpdate(r, TRUE) /\ reqs[r].invoiceId \in ExistingInvoices) =>
              /\ reqs'[r].status = 201
              /\ invoices'[reqs[r].invoiceId].payment_status \in {"pending", "partial", "paid"}]_vars

\* an invoice imported as 'overdue' (nothing paid, past due: the only imported
\* row with nothing paid) has received one payment and is 'partial'
C25_Witness ==
    \E i \in ExistingInvoices :
        /\ invoices[i].initial_paid = 0
        /\ invoices[i].amount_paid = 5 /\ invoices[i].payment_status = "partial"
        /\ \E r \in RequestIds : reqs[r].pc = "done" /\ reqs[r].status = 201

----------------------------------------------------------------------------
(* Properties of the outbound calls *)

\* C23: every outbound call ends within a bounded time, by completing or by a
\* timeout error, so every proxied request is eventually answered, whatever the
\* upstream does.
C23_EveryCallAnswered == (call.pc \in {"fetch", "body"}) ~> (call.pc = "done")

----------------------------------------------------------------------------
(* Properties of the generator against the calculator *)

\* C27: for every deadline auto-create produces, calculate with the same
\* deadline_type, trigger_date and project_type finds a seeded rule and returns
\* the same deadline_date.
C27_GeneratorMatchesCalculator ==
    AutoCreated =>
        \A k \in DOMAIN resp.res.deadlines :
            LET created == resp.res.deadlines[k]
                answer == CalculateAnswer(tz, Some(created.deadline_type), created.trigger_date,
                                          resp.req.projectType, TRUE)
            IN  /\ answer.status = 200
                /\ answer.body.deadlineDate = created.deadline_date

----------------------------------------------------------------------------
(* Properties of the batch status endpoint *)

\* the status call succeeded: a 2xx with the job's status
BatchStatusSucceeded == resp.op = "batchStatus" /\ resp.statusReply.kind = "ok"

\* C28: whenever the upstream status call succeeds, GET /api/llm/batch/:jobId
\* answers 200 with the upstream status unchanged; result and error are never
\* both non-null; result is non-null exactly when the status is 'completed',
\* whatever the results fetch did; error is non-null only for 'failed', 'expired'
\* and 'cancelled'; the results endpoint is fetched only for 'completed'.
C28_BatchStatusShape ==
    BatchStatusSucceeded =>
        LET body == resp.res.body
            upstream == resp.statusReply.status
        IN  /\ resp.res.status = 200
            /\ body.status = upstream
            /\ ~(body.result # Absent /\ body.error # Absent)
            /\ body.result # Absent <=> upstream = "completed"
            /\ body.error # Absent => upstream \in {"failed", "expired", "cancelled"}
            /\ upstream \notin {"completed", "failed", "expired", "cancelled"} =>
                  (body.result = Absent /\ body.error = Absent)
            /\ resp.res.fetched =
                  (IF upstream = "completed" THEN <<"batch", "results">> ELSE <<"batch">>)

\* a completed batch whose results fetch got no answer is answered 200 with a
\* result and no error
C28_Witness ==
    /\ BatchStatusSucceeded
    /\ resp.statusReply.status = "completed" /\ resp.resultsReply.kind = "none"
    /\ resp.res.status = 200 /\ resp.res.body.result # Absent

----------------------------------------------------------------------------
(* Properties of the chat history *)

\* C29: POST /chat/message leaves chat_history unchanged when it fails: no row
\* of a request answered with an error remains, so the stored history alternates
\* user message and assistant reply.
C29_FailedChatLeavesNoRow ==
    /\ (resp.op = "chatMessage" /\ resp.res.status # 200) =>
          \A k \in DOMAIN chat.rows : chat.rows[k].request # resp.request
    /\ \A k \in DOMAIN chat.rows :
          chat.rows[k].role = (IF k % 2 = 1 THEN "user" ELSE "assistant")


\* a PUT of the deadline id with one of the bodies of the completion behaviours
PutOf(id) ==
    \E s \in Opt(CompletionStatuses), c \in Opt(CompletionDays) :
        UpdateDeadline(id, Absent, s, Absent, c, TRUE)

\* the fields of a deadline row other than updated_at
SameButUpdatedAt(a, b) == [a EXCEPT !.updated_at = 0] = [b EXCEPT !.updated_at = 0]

\* C30: POST /deadlines/:id/complete on an existing deadline sets status
\* 'completed' and completed_date to the current date whatever the status was,
\* and changes nothing else of the row but updated_at and no other row; on a
\* row it has already completed that day it changes nothing but updated_at;
\* and a step that takes a deadline out of 'completed' while the row stays is a
\* PUT of that deadline
C30_CompleteDeadline ==
    [][\A id \in ExistingDeadlines :
          /\ CompleteDeadline(id, TRUE) =>
                /\ ExistingDeadlines' = ExistingDeadlines
                /\ deadlines'[id].status = "completed"
                /\ deadlines'[id].completed_date = Some(CurrentDate)
                /\ SameButUpdatedAt(deadlines'[id],
                                    [deadlines[id] EXCEPT !.status = "completed",
                                                          !.completed_date = Some(CurrentDate)])
                /\ \A other \in ExistingDeadlines \ {id} : deadlines'[other] = deadlines[other]
                /\ (deadlines[id].status = "completed"
                        /\ deadlines[id].completed_date = Some(CurrentDate))
                      => SameButUpdatedAt(deadlines'[id], deadlines[id])
          /\ (deadlines[id].status = "completed" /\ id \in ExistingDeadlines'
                 /\ deadlines'[id].status # "completed") => PutOf(id)]_vars

\* a deadline has been completed at a later instant than the first: only the
\* completion route stores the current date as completed_date here
C30_Witness ==
    \E id \in ExistingDeadlines :
        /\ deadlines[id].status = "completed"
        /\ deadlines[id].completed_date = Some(CurrentDate)
        /\ deadlines[id].updated_at = MaxClock



\* C24: a store failure inside a handler is answered with one generic 500: the
\* body of the import's 500 answer is the handler's own description and
\* nothing of the store's error
C24_GenericStoreFailure ==
    (resp.op = "import" /\ resp.res.status = 500)
        => resp.res.body = [error |-> "Failed to import invoices"]


====
